---- MODULE Spec2Model ----
(***************************************************************************)
(* A model of the IBC host state machine of cosmos-ibc-rs: the mock host   *)
(* context (ibc-testkit core_ctx.rs), the ConnectionOpenConfirm handler    *)
(* (ics03_connection/handler/conn_open_confirm.rs) and the packet          *)
(* lifecycle that runs on top of the context's packet stores.              *)
(***************************************************************************)
EXTENDS Integers, Sequences, FiniteSets, TLC

(***************************************************************************)
(* Bounds of the model.                                                    *)
(***************************************************************************)
\* Number of client identifiers the client counter may allocate.
MaxClients == 1
\* Number of connection identifiers the connection counter may allocate.
MaxConns == 1
\* Largest revision height used for consensus states, proofs and the host.
MaxHeight == 2
\* Largest packet sequence number received on a channel.
MaxSeq == 2
\* Number of packets the local applications send on a channel.
MaxSend == 1
\* Number of context operations in one run of the bare context.
MaxOps == 2

VARIABLES
    ibc_store,     \* MockGenericContext.ibc_store: the pending view of every store
    host_height,   \* revision height of the last block of the host history
    last,          \* the last operation: its name, its arguments, what it returned
    recv_log,      \* per channel, the sequences of the successful RecvPackets, in order
    end_log        \* per (channel, sequence), the successful Ack/Timeout/TimeoutOnClose steps

vars == <<ibc_store, host_height, last, recv_log, end_log>>

(***************************************************************************)
(* Option and Result values.                                               *)
(***************************************************************************)
None == [some |-> FALSE]
Some(v) == [some |-> TRUE, val |-> v]

Ok(v) == [ok |-> TRUE, val |-> v]
Err(e) == [ok |-> FALSE, err |-> e]

\* A call that unwinds instead of returning.
Panic(msg) == [ok |-> FALSE, panic |-> msg]

(***************************************************************************)
(* The identifier counters are u64.  TLC integers are 32 bits wide, so a   *)
(* u64 n is kept as n when it is small and as n - 2^64 when it is within   *)
(* 2^31 of 2^64: U64_MAX, 18446744073709551615, is kept as -1 and          *)
(* 18446744073709551614 as -2.  Adding 1 to what is kept is adding 1       *)
(* modulo 2^64: U64_MAX + 1 is 0.                                          *)
(***************************************************************************)
U64_MAX == 0 - 1

\* a < b as u64.
u64_lt(a, b) == IF (a >= 0) = (b >= 0) THEN a < b ELSE a >= 0

\* current_sequence + 1 on u64: at u64::MAX the addition panics in a build
\* with overflow checks (debug) and wraps to 0 in one without (release).
u64_add_one(current_sequence, overflow_checks) ==
    IF current_sequence = U64_MAX /\ overflow_checks
    THEN Panic("attempt to add with overflow")
    ELSE Ok(current_sequence + 1)

(***************************************************************************)
(* The key-value stores of the context: a store is a function whose domain *)
(* is the set of paths that are set (StoreHeight::Pending view).           *)
(***************************************************************************)
EmptyStore == [k \in {} |-> k]

StoreGet(store, key) == IF key \in DOMAIN store THEN Some(store[key]) ELSE None

StoreSet(store, key, value) ==
    [k \in (DOMAIN store) \cup {key} |-> IF k = key THEN value ELSE store[k]]

StoreDelete(store, key) == [k \in (DOMAIN store) \ {key} |-> store[k]]

\* Option::ok_or
ok_or(opt, e) == IF opt.some THEN Ok(opt.val) ELSE Err(e)

(***************************************************************************)
(* Identifiers and paths. A ClientId / ConnectionId is its counter value.  *)
(***************************************************************************)
ClientIds == 0..MaxClients
ConnectionIds == 0..MaxConns
Heights == 1..MaxHeight

NextClientSequencePath == "nextClientSequence"
NextConnectionSequencePath == "nextConnectionSequence"
NextChannelSequencePath == "nextChannelSequence"

ClientConsensusStatePath(client_id, height) == <<client_id, height>>

(***************************************************************************)
(* ValidationContext for MockGenericContext (read side).                   *)
(***************************************************************************)
client_state(ctx, client_id) ==
    ok_or(StoreGet(ctx.client_state_store, client_id),
          [kind |-> "ClientStateNotFound", client_id |-> client_id])

\* Mutant: the height of the path is not checked before the lookup.
consensus_state_unchecked_height(ctx, client_id, height) ==
    ok_or(StoreGet(ctx.consensus_state_store,
                   ClientConsensusStatePath(client_id, height)),
          [kind |-> "ConsensusStateNotFound", client_id |-> client_id,
           height |-> height])

consensus_state(ctx, client_id, height) ==
    IF height = 0
    THEN Err([kind |-> "InvalidHeight"])
    ELSE ok_or(StoreGet(ctx.consensus_state_store,
                        ClientConsensusStatePath(client_id, height)),
               [kind |-> "ConsensusStateNotFound", client_id |-> client_id,
                height |-> height])

client_counter(ctx) ==
    ok_or(StoreGet(ctx.client_counter, NextClientSequencePath),
          [kind |-> "Other", description |-> "client counter not found"])

connection_end(ctx, conn_id) ==
    ok_or(StoreGet(ctx.connection_end_store, conn_id),
          [kind |-> "ConnectionNotFound", connection_id |-> conn_id])

\* commitment_prefix(): CommitmentPrefix::default(), the empty prefix.
commitment_prefix == ""

\* The prefix of the counterparty's store, as the connection tests give it.
counterparty_prefix == "ibc"

connection_counter(ctx) ==
    ok_or(StoreGet(ctx.conn_counter, NextConnectionSequencePath),
          [kind |-> "Other", description |-> "connection counter not found"])

get_compatible_versions == <<"1">>

(***************************************************************************)
(* ExecutionContext for MockGenericContext (write side). Each operation    *)
(* returns the context after the call.                                     *)
(***************************************************************************)
store_client_state(ctx, client_id, cs) ==
    [ctx EXCEPT !.client_state_store = StoreSet(@, client_id, cs)]

store_consensus_state(ctx, client_id, height, cons) ==
    [ctx EXCEPT !.consensus_state_store =
                    StoreSet(@, ClientConsensusStatePath(client_id, height), cons)]

\* The Result of increase_client_counter, with the context after the call as
\* its value: the call fails when the counter is not found.
increase_client_counter(ctx, overflow_checks) ==
    LET current_sequence == client_counter(ctx)
        next == u64_add_one(current_sequence.val, overflow_checks)
    IN  IF ~current_sequence.ok THEN Err(current_sequence.err)
        ELSE IF ~next.ok THEN next
        ELSE Ok([ctx EXCEPT !.client_counter =
                                StoreSet(@, NextClientSequencePath, next.val)])

store_connection(ctx, connection_id, conn_end) ==
    [ctx EXCEPT !.connection_end_store = StoreSet(@, connection_id, conn_end)]

\* Mutant: the new connection id is put in front of the stored ones.
store_connection_to_client_in_front(ctx, client_id, conn_id) ==
    LET got == StoreGet(ctx.connection_ids_store, client_id)
        conn_ids == IF got.some THEN got.val ELSE <<>>
    IN  [ctx EXCEPT !.connection_ids_store =
                        StoreSet(@, client_id, <<conn_id>> \o conn_ids)]

store_connection_to_client(ctx, client_id, conn_id) ==
    LET got == StoreGet(ctx.connection_ids_store, client_id)
        conn_ids == IF got.some THEN got.val ELSE <<>>
    IN  [ctx EXCEPT !.connection_ids_store =
                        StoreSet(@, client_id, Append(conn_ids, conn_id))]

increase_connection_counter(ctx, overflow_checks) ==
    LET current_sequence == connection_counter(ctx)
        next == u64_add_one(current_sequence.val, overflow_checks)
    IN  IF ~current_sequence.ok THEN Err(current_sequence.err)
        ELSE IF ~next.ok THEN next
        ELSE Ok([ctx EXCEPT !.conn_counter =
                                StoreSet(@, NextConnectionSequencePath, next.val)])

(***************************************************************************)
(* Channel and packet stores of the context.                               *)
(***************************************************************************)
ChannelEndPath(port_id, channel_id) == <<port_id, channel_id>>
SeqSendPath(port_id, channel_id) == <<port_id, channel_id>>
SeqRecvPath(port_id, channel_id) == <<port_id, channel_id>>
SeqAckPath(port_id, channel_id) == <<port_id, channel_id>>
CommitmentPath(port_id, channel_id, sequence) == <<port_id, channel_id, sequence>>
ReceiptPath(port_id, channel_id, sequence) == <<port_id, channel_id, sequence>>
AckPath(port_id, channel_id, sequence) == <<port_id, channel_id, sequence>>

channel_end(ctx, channel_end_path) ==
    ok_or(StoreGet(ctx.channel_end_store, channel_end_path),
          [kind |-> "MissingChannel"])

get_next_sequence_send(ctx, seq_send_path) ==
    ok_or(StoreGet(ctx.send_sequence_store, seq_send_path),
          [kind |-> "ImplementationSpecific"])

\* Mutant: the receive sequence is read from the send sequence store.
get_next_sequence_recv_from_send(ctx, seq_recv_path) ==
    ok_or(StoreGet(ctx.send_sequence_store, seq_recv_path),
          [kind |-> "ImplementationSpecific"])

get_next_sequence_recv(ctx, seq_recv_path) ==
    ok_or(StoreGet(ctx.recv_sequence_store, seq_recv_path),
          [kind |-> "ImplementationSpecific"])

get_next_sequence_ack(ctx, seq_ack_path) ==
    ok_or(StoreGet(ctx.ack_sequence_store, seq_ack_path),
          [kind |-> "ImplementationSpecific"])

get_packet_commitment(ctx, commitment_path) ==
    ok_or(StoreGet(ctx.packet_commitment_store, commitment_path),
          [kind |-> "ImplementationSpecific"])

\* Mutant: the receipt is looked up on the port alone, so it is never found.
get_packet_receipt_never(ctx, receipt_path) ==
    IF <<receipt_path[1]>> \in ctx.packet_receipt_store
    THEN Ok("Receipt::Ok")
    ELSE Err([kind |-> "PacketReceiptNotFound", sequence |-> receipt_path[3]])

get_packet_receipt(ctx, receipt_path) ==
    IF receipt_path \in ctx.packet_receipt_store
    THEN Ok("Receipt::Ok")
    ELSE Err([kind |-> "PacketReceiptNotFound", sequence |-> receipt_path[3]])

get_packet_acknowledgement(ctx, ack_path) ==
    ok_or(StoreGet(ctx.packet_ack_store, ack_path),
          [kind |-> "PacketAcknowledgementNotFound", sequence |-> ack_path[3]])

channel_counter(ctx) ==
    ok_or(StoreGet(ctx.channel_counter, NextChannelSequencePath),
          [kind |-> "Other", description |-> "channel counter not found"])

\* Mutant: a commitment already stored at the path is kept.
store_packet_commitment_first_wins(ctx, commitment_path, commitment) ==
    IF commitment_path \in DOMAIN ctx.packet_commitment_store
    THEN ctx
    ELSE [ctx EXCEPT !.packet_commitment_store = StoreSet(@, commitment_path, commitment)]

store_packet_commitment(ctx, commitment_path, commitment) ==
    [ctx EXCEPT !.packet_commitment_store = StoreSet(@, commitment_path, commitment)]

\* Mutant: the deletion removes nothing.
delete_packet_commitment_noop(ctx, key) == ctx

delete_packet_commitment(ctx, key) ==
    [ctx EXCEPT !.packet_commitment_store = StoreDelete(@, key)]

\* Mutant: the receipt store is replaced by the one new receipt.
store_packet_receipt_replace(ctx, receipt_path, receipt) ==
    [ctx EXCEPT !.packet_receipt_store = {receipt_path}]

store_packet_receipt(ctx, receipt_path, receipt) ==
    [ctx EXCEPT !.packet_receipt_store = @ \cup {receipt_path}]

store_packet_acknowledgement(ctx, ack_path, ack_commitment) ==
    [ctx EXCEPT !.packet_ack_store = StoreSet(@, ack_path, ack_commitment)]

\* Mutant: the deletion goes to the commitment store.
delete_packet_acknowledgement_wrong_store(ctx, ack_path) ==
    [ctx EXCEPT !.packet_commitment_store = StoreDelete(@, ack_path)]

delete_packet_acknowledgement(ctx, ack_path) ==
    [ctx EXCEPT !.packet_ack_store = StoreDelete(@, ack_path)]

store_channel(ctx, channel_end_path, chan_end) ==
    [ctx EXCEPT !.channel_end_store = StoreSet(@, channel_end_path, chan_end)]

store_next_sequence_send(ctx, seq_send_path, seq) ==
    [ctx EXCEPT !.send_sequence_store = StoreSet(@, seq_send_path, seq)]

store_next_sequence_recv(ctx, seq_recv_path, seq) ==
    [ctx EXCEPT !.recv_sequence_store = StoreSet(@, seq_recv_path, seq)]

store_next_sequence_ack(ctx, seq_ack_path, seq) ==
    [ctx EXCEPT !.ack_sequence_store = StoreSet(@, seq_ack_path, seq)]

increase_channel_counter(ctx, overflow_checks) ==
    LET current_sequence == channel_counter(ctx)
        next == u64_add_one(current_sequence.val, overflow_checks)
    IN  IF ~current_sequence.ok THEN Err(current_sequence.err)
        ELSE IF ~next.ok THEN next
        ELSE Ok([ctx EXCEPT !.channel_counter =
                                StoreSet(@, NextChannelSequencePath, next.val)])

\* Mutant: the event is put in front of the buffer.
emit_ibc_event_in_front(ctx, event) == [ctx EXCEPT !.events = <<event>> \o @]

emit_ibc_event(ctx, event) == [ctx EXCEPT !.events = Append(@, event)]

log_message(ctx, message) == [ctx EXCEPT !.logs = Append(@, message)]

(***************************************************************************)
(* The context after construction (MockContext::default()): every store is *)
(* empty and the three identifier counters are 0.                          *)
(***************************************************************************)
DefaultStore ==
    [client_state_store      |-> EmptyStore,
     consensus_state_store   |-> EmptyStore,
     connection_end_store    |-> EmptyStore,
     connection_ids_store    |-> EmptyStore,
     channel_end_store       |-> EmptyStore,
     send_sequence_store     |-> EmptyStore,
     recv_sequence_store     |-> EmptyStore,
     ack_sequence_store      |-> EmptyStore,
     packet_commitment_store |-> EmptyStore,
     packet_receipt_store    |-> {},
     packet_ack_store        |-> EmptyStore,
     client_counter          |-> [k \in {NextClientSequencePath} |-> 0],
     conn_counter            |-> [k \in {NextConnectionSequencePath} |-> 0],
     channel_counter         |-> [k \in {NextChannelSequencePath} |-> 0],
     events                  |-> <<>>,
     logs                    |-> <<>>,
     committed               |-> <<>>]

NoCall == [op |-> "none"]

(***************************************************************************)
(* Connection ends.                                                        *)
(***************************************************************************)
ConnStates == {"Uninitialized", "Init", "TryOpen", "Open"}

Counterparty(client_id, connection_id, prefix) ==
    [client_id |-> client_id, connection_id |-> connection_id, prefix |-> prefix]

ConnectionEnd(state, client_id, counterparty, versions, delay_period) ==
    [state |-> state, client_id |-> client_id, counterparty |-> counterparty,
     versions |-> versions, delay_period |-> delay_period]

\* ConnectionEnd::state_matches
state_matches(conn_end, state) == conn_end.state = state

(***************************************************************************)
(* The light client's verification of a counterparty connection end. A     *)
(* proof is a membership proof of one value at one path under one root.    *)
(***************************************************************************)
ConnectionProofPath(prefix, conn_id) == <<prefix, "connections", conn_id>>

\* verify_connection_state that does not compare the proved value.
verify_connection_state_any(cs, height, prefix, proof, root, conn_id, expected) ==
    /\ proof.root = root
    /\ proof.path = ConnectionProofPath(prefix, conn_id)

verify_connection_state(cs, height, prefix, proof, root, conn_id, expected) ==
    /\ proof.root = root
    /\ proof.path = ConnectionProofPath(prefix, conn_id)
    /\ proof.value = expected

\* The consensus state a client derives from the counterparty header at a height.
ConsensusStateAt(height) == [root |-> height, timestamp |-> height]

(***************************************************************************)
(* ConnectionOpenConfirm: ics03_connection::handler::conn_open_confirm.    *)
(***************************************************************************)
connection_mismatch(connection_id) ==
    [kind |-> "ConnectionMismatch", connection_id |-> connection_id]

\* The error of a failed verification in place of invalid_counterparty.
invalid_counterparty_as_verify == [kind |-> "VerifyConnectionState"]

invalid_counterparty == [kind |-> "InvalidCounterparty"]

verify_connection_state_error == [kind |-> "VerifyConnectionState"]

\* Mutant: the state check also lets an Init end through.
confirm_state_ok_lax(conn_end) ==
    state_matches(conn_end, "TryOpen") \/ state_matches(conn_end, "Init")
      \/ state_matches(conn_end, "Open")

\* A connection end must be in TryOpen state; otherwise return error.
confirm_state_ok(conn_end) == state_matches(conn_end, "TryOpen")

\* The end the counterparty must have stored for the proof to pass.
counterparty_expected_connection_end(msg, self_connection_end) ==
    ConnectionEnd("Open",
                  self_connection_end.counterparty.client_id,
                  Counterparty(self_connection_end.client_id,
                               Some(msg.connection_id),
                               commitment_prefix),
                  self_connection_end.versions,
                  self_connection_end.delay_period)

\* Mutant: the result is built from a fresh end instead of the stored one.
set_state_open_fresh(conn_end) ==
    ConnectionEnd("Open", conn_end.client_id,
                  Counterparty(conn_end.counterparty.client_id, None,
                               conn_end.counterparty.prefix),
                  <<>>, 0)

\* Mutant: the state is left as it was.
set_state_open_noop(conn_end) == conn_end

\* Transition our own end of the connection to state OPEN.
set_state_open(conn_end) == [conn_end EXCEPT !.state = "Open"]

\* Mutant: the result names a newly generated identifier.
confirm_result_generated(msg, conn_end) ==
    [connection_id |-> msg.connection_id + 1,
     connection_id_state |-> "Generated",
     connection_end |-> conn_end]

confirm_result(msg, conn_end) ==
    [connection_id |-> msg.connection_id,
     connection_id_state |-> "Reused",
     connection_end |-> conn_end]

\* Mutant: the event is emitted twice.
confirm_events_twice(result) ==
    << [kind |-> "OpenConfirmConnection", connection_id |-> Some(result.connection_id)],
       [kind |-> "OpenConfirmConnection", connection_id |-> Some(result.connection_id)] >>

confirm_events(result) ==
    << [kind |-> "OpenConfirmConnection", connection_id |-> Some(result.connection_id)] >>

\* HandlerOutput with a result, and the error return.
HandlerOk(result, events, log) ==
    [ok |-> TRUE, result |-> result, events |-> events, log |-> log]
HandlerErr(e) == [ok |-> FALSE, err |-> e]

process(ctx, msg) ==
    LET conn == connection_end(ctx, msg.connection_id) IN
    IF ~conn.ok THEN HandlerErr(conn.err)
    ELSE
    LET self_connection_end == conn.val IN
    IF ~confirm_state_ok(self_connection_end)
    THEN HandlerErr(connection_mismatch(msg.connection_id))
    ELSE
    LET cs == client_state(ctx, self_connection_end.client_id) IN
    IF ~cs.ok THEN HandlerErr(cs.err)
    ELSE
    LET cons == consensus_state(ctx, self_connection_end.client_id, msg.proofs_height) IN
    IF ~cons.ok THEN HandlerErr(cons.err)
    ELSE
    LET cp_id == ok_or(self_connection_end.counterparty.connection_id,
                       invalid_counterparty) IN
    IF ~cp_id.ok THEN HandlerErr(cp_id.err)
    ELSE
    IF ~verify_connection_state(
            cs.val, msg.proofs_height, self_connection_end.counterparty.prefix,
            msg.proof_connection_end, cons.val.root, cp_id.val,
            counterparty_expected_connection_end(msg, self_connection_end))
    THEN HandlerErr(verify_connection_state_error)
    ELSE
    LET result == confirm_result(msg, set_state_open(self_connection_end)) IN
    HandlerOk(result, confirm_events(result),
              <<"success: conn_open_confirm verification passed">>)

(***************************************************************************)
(* The connection handshake around OpenConfirm (client creation,           *)
(* OpenInit, OpenTry, OpenAck), which produces the connection ends that    *)
(* OpenConfirm finds in the store.                                         *)
(***************************************************************************)
\* Identifiers on the counterparty chain, and the delay periods in use.
CounterpartyClientIds == {7}
CounterpartyConnectionIds == {5, 6}
DelayPeriods == {0, 5}
OfferedVersions == {<<"1">>, <<"2", "1">>, <<"2">>}

\* First offered version that is also supported locally (None if there is none).
pick_version(supported, offered) ==
    LET idx == {i \in 1..Len(offered) : \E j \in 1..Len(supported) : supported[j] = offered[i]}
    IN  IF idx = {} THEN None
        ELSE Some(offered[CHOOSE i \in idx : \A k \in idx : i <= k])

ConnCall(op, connection_id, out) ==
    [op |-> op, connection_id |-> connection_id, out |-> out]

CreateClient ==
    /\ client_counter(ibc_store).val < MaxClients
    /\ \E h \in Heights, overflow_checks \in BOOLEAN :
         LET id == client_counter(ibc_store).val
             s1 == store_client_state(ibc_store, id, [latest_height |-> h, frozen |-> FALSE])
             s2 == store_consensus_state(s1, id, h, ConsensusStateAt(h))
         IN  /\ ibc_store' = increase_client_counter(s2, overflow_checks).val
             /\ last' = [op |-> "create_client", client_id |-> id]
    /\ UNCHANGED <<host_height, recv_log, end_log>>

ConnOpenInit ==
    /\ connection_counter(ibc_store).val < MaxConns
    /\ \E client_id \in ClientIds, cp_client \in CounterpartyClientIds,
          delay \in DelayPeriods, overflow_checks \in BOOLEAN :
         LET id == connection_counter(ibc_store).val
             conn_end == ConnectionEnd("Init", client_id,
                                       Counterparty(cp_client, None, counterparty_prefix),
                                       get_compatible_versions, delay)
             s1 == store_connection(ibc_store, id, conn_end)
             s2 == store_connection_to_client(s1, client_id, id)
         IN  /\ ibc_store' = increase_connection_counter(s2, overflow_checks).val
             /\ last' = ConnCall("conn_open_init", id, [ok |-> TRUE])
    /\ UNCHANGED <<host_height, recv_log, end_log>>

ConnOpenTry ==
    /\ connection_counter(ibc_store).val < MaxConns
    /\ \E client_id \in ClientIds, cp_client \in CounterpartyClientIds,
          cp_conn \in CounterpartyConnectionIds, delay \in DelayPeriods,
          offered \in OfferedVersions, h \in Heights, proof_state \in {"Init", "Open"},
          overflow_checks \in BOOLEAN :
         LET id == connection_counter(ibc_store).val
             cs == client_state(ibc_store, client_id)
             cons == consensus_state(ibc_store, client_id, h)
             version == pick_version(get_compatible_versions, offered)
             expected == ConnectionEnd("Init", cp_client,
                                       Counterparty(client_id, None, commitment_prefix),
                                       offered, delay)
             proof == [root |-> h,
                       path |-> ConnectionProofPath(counterparty_prefix, cp_conn),
                       value |-> [expected EXCEPT !.state = proof_state]]
         IN  /\ cs.ok /\ cons.ok /\ version.some
             /\ verify_connection_state(cs.val, h, counterparty_prefix, proof,
                                        cons.val.root, cp_conn, expected)
             /\ LET conn_end == ConnectionEnd("TryOpen", client_id,
                                    Counterparty(cp_client, Some(cp_conn), counterparty_prefix),
                                    <<version.val>>, delay)
                    s1 == store_connection(ibc_store, id, conn_end)
                    s2 == store_connection_to_client(s1, client_id, id)
                IN  /\ ibc_store' = increase_connection_counter(s2, overflow_checks).val
                    /\ last' = ConnCall("conn_open_try", id, [ok |-> TRUE])
    /\ UNCHANGED <<host_height, recv_log, end_log>>

ConnOpenAck ==
    /\ \E id \in ConnectionIds, cp_conn \in CounterpartyConnectionIds,
          h \in Heights, proof_state \in {"TryOpen", "Init"} :
         LET conn == connection_end(ibc_store, id) IN
         /\ conn.ok
         /\ state_matches(conn.val, "Init")
         /\ LET cs == client_state(ibc_store, conn.val.client_id)
                cons == consensus_state(ibc_store, conn.val.client_id, h)
                version == conn.val.versions[1]
                expected == ConnectionEnd("TryOpen", conn.val.counterparty.client_id,
                                Counterparty(conn.val.client_id, Some(id), commitment_prefix),
                                <<version>>, conn.val.delay_period)
                proof == [root |-> h,
                          path |-> ConnectionProofPath(conn.val.counterparty.prefix, cp_conn),
                          value |-> [expected EXCEPT !.state = proof_state]]
            IN  /\ cs.ok /\ cons.ok
                /\ verify_connection_state(cs.val, h, conn.val.counterparty.prefix, proof,
                                           cons.val.root, cp_conn, expected)
                /\ ibc_store' = store_connection(ibc_store, id,
                       [conn.val EXCEPT !.state = "Open",
                                        !.counterparty.connection_id = Some(cp_conn),
                                        !.versions = <<version>>])
                /\ last' = ConnCall("conn_open_ack", id, [ok |-> TRUE])
    /\ UNCHANGED <<host_height, recv_log, end_log>>

(***************************************************************************)
(* MsgConnectionOpenConfirm inputs: every connection id and proof height,  *)
(* and for the proof the one the handler expects together with proofs of a *)
(* counterparty end in another state, under another root and at another    *)
(* path.                                                                   *)
(***************************************************************************)
ConfirmProofs(ctx, connection_id, h) ==
    LET conn == connection_end(ctx, connection_id)
        dummy == [root |-> 0, path |-> <<>>, value |-> None]
    IN  IF ~conn.ok \/ ~conn.val.counterparty.connection_id.some THEN {dummy}
        ELSE
        LET msg0 == [connection_id |-> connection_id]
            expected == counterparty_expected_connection_end(msg0, conn.val)
            path == ConnectionProofPath(conn.val.counterparty.prefix,
                                        conn.val.counterparty.connection_id.val)
        IN  { [root |-> h, path |-> path, value |-> expected],
              [root |-> h, path |-> path, value |-> [expected EXCEPT !.state = "TryOpen"]],
              [root |-> h + 1, path |-> path, value |-> expected],
              [root |-> h, path |-> ConnectionProofPath("other", 0), value |-> expected] }

MsgConnectionOpenConfirms(ctx) ==
    UNION { { [connection_id |-> id, proofs_height |-> h, proof_connection_end |-> p]
              : p \in ConfirmProofs(ctx, id, h) }
            : <<id, h>> \in ConnectionIds \X Heights }

\* Mutant: the connection end of the result is written whatever process returned.
conn_open_confirm_store_always(ctx, msg, out) ==
    LET conn == connection_end(ctx, msg.connection_id) IN
    IF conn.ok THEN store_connection(ctx, msg.connection_id, set_state_open(conn.val))
    ELSE ctx

\* The caller of process keeps the result of a successful call
\* (ConnectionIdState::Reused: the end goes back to its own path).
conn_open_confirm_store(ctx, msg, out) ==
    IF out.ok
    THEN store_connection(ctx, out.result.connection_id, out.result.connection_end)
    ELSE ctx

ConnOpenConfirm ==
    /\ \E msg \in MsgConnectionOpenConfirms(ibc_store) :
         LET out == process(ibc_store, msg) IN
         /\ ibc_store' = conn_open_confirm_store(ibc_store, msg, out)
         /\ last' = [op |-> "conn_open_confirm",
                     connection_id |-> msg.connection_id,
                     pre |-> StoreGet(ibc_store.connection_end_store, msg.connection_id),
                     out |-> out]
    /\ UNCHANGED <<host_height, recv_log, end_log>>

ConnInit ==
    /\ ibc_store = DefaultStore
    /\ host_height = 1
    /\ last = NoCall
    /\ recv_log = EmptyStore
    /\ end_log = EmptyStore

ConnNext ==
    \/ CreateClient
    \/ ConnOpenInit
    \/ ConnOpenTry
    \/ ConnOpenAck
    \/ ConnOpenConfirm

ConnSpec == ConnInit /\ [][ConnNext]_vars

(***************************************************************************)
(* Properties of ConnectionOpenConfirm, checked under ConnSpec.            *)
(***************************************************************************)
IsConfirm(call) == call.op = "conn_open_confirm"

\* C1: OpenConfirm on a stored connection end whose state is not TryOpen
\* returns the connection-mismatch error for msg.connection_id and no
\* ConnectionResult.
C1_WrongStateIsConnectionMismatch ==
    (IsConfirm(last) /\ last.pre.some /\ last.pre.val.state # "TryOpen")
        => /\ ~last.out.ok
           /\ last.out.err = connection_mismatch(last.connection_id)
           /\ "result" \notin DOMAIN last.out

C1_Witness ==
    /\ IsConfirm(last)
    /\ last.pre.some
    /\ last.pre.val.state = "Init"
    /\ ~last.out.ok
    /\ last.out.err.kind = "ConnectionMismatch"

\* C2: a successful OpenConfirm found the local end in TryOpen and returns,
\* for the same (reused) connection id, an end in state Open whose client id,
\* counterparty, versions and delay period are those of the stored end.
C2_SuccessOpensTheStoredEnd ==
    (IsConfirm(last) /\ last.out.ok)
        => /\ last.pre.some
           /\ last.pre.val.state = "TryOpen"
           /\ last.out.result.connection_id = last.connection_id
           /\ last.out.result.connection_id_state = "Reused"
           /\ last.out.result.connection_end.state = "Open"
           /\ last.out.result.connection_end.client_id = last.pre.val.client_id
           /\ last.out.result.connection_end.counterparty = last.pre.val.counterparty
           /\ last.out.result.connection_end.versions = last.pre.val.versions
           /\ last.out.result.connection_end.delay_period = last.pre.val.delay_period

C2_Witness ==
    /\ IsConfirm(last)
    /\ last.out.ok
    /\ last.pre.val.state = "TryOpen"
    /\ last.out.result.connection_end.state = "Open"
    /\ last.out.result.connection_end.delay_period = 5

\* C3: an OpenConfirm step changes a connection's state only from TryOpen to
\* Open; applied to an absent, Init or Open connection it fails and leaves
\* the connection as it was; an Open connection stays Open in every step.
C3_OnlyTryOpenToOpen ==
    [][ \A id \in ConnectionIds :
          LET before == StoreGet(ibc_store.connection_end_store, id)
              after == StoreGet(ibc_store'.connection_end_store, id)
          IN  /\ (before.some /\ before.val.state = "Open")
                    => (after.some /\ after.val.state = "Open")
              /\ IsConfirm(last') =>
                   /\ (before # after)
                        => /\ before.some /\ after.some
                           /\ before.val.state = "TryOpen"
                           /\ after.val.state = "Open"
                           /\ last'.out.ok
                           /\ id = last'.connection_id
                   /\ (id = last'.connection_id
                         /\ (~before.some \/ before.val.state \in {"Init", "Open"}))
                        => (~last'.out.ok /\ after = before)
      ]_vars

\* A replayed OpenConfirm: the connection is already Open, the call fails.
C3_Witness ==
    /\ IsConfirm(last)
    /\ last.pre.some
    /\ last.pre.val.state = "Open"
    /\ ~last.out.ok
    /\ ibc_store.connection_end_store[last.connection_id].state = "Open"

\* C4: every stored connection end in state Open has exactly one version and
\* a counterparty connection id that is present.
C4_OpenHasOneVersionAndCounterpartyId ==
    \A id \in DOMAIN ibc_store.connection_end_store :
        LET conn_end == ibc_store.connection_end_store[id] IN
        conn_end.state = "Open"
            => /\ Len(conn_end.versions) = 1
               /\ conn_end.counterparty.connection_id.some

\* An Open end that a successful OpenConfirm has just produced and stored.
C4_Witness ==
    /\ IsConfirm(last)
    /\ last.out.ok
    /\ last.connection_id \in DOMAIN ibc_store.connection_end_store
    /\ ibc_store.connection_end_store[last.connection_id].state = "Open"
    /\ Len(ibc_store.connection_end_store[last.connection_id].versions) = 1

\* C5: a failing OpenConfirm leaves the store identical to its pre-call state
\* and returns neither events nor a ConnectionResult.
C5_FailureLeavesStoreUnchanged ==
    [][ (IsConfirm(last') /\ ~last'.out.ok)
          => /\ ibc_store' = ibc_store
             /\ "result" \notin DOMAIN last'.out
             /\ "events" \notin DOMAIN last'.out
      ]_vars

\* A call that got as far as proof verification and failed there.
C5_Witness ==
    /\ IsConfirm(last)
    /\ ~last.out.ok
    /\ last.out.err.kind = "VerifyConnectionState"
    /\ last.pre.some
    /\ ibc_store.connection_end_store[last.connection_id] = last.pre.val

\* C6: a successful OpenConfirm emits exactly one event, OpenConfirmConnection
\* with connection id msg.connection_id; a failed one emits none.
C6_ExactlyOneOpenConfirmEvent ==
    IsConfirm(last)
        => IF last.out.ok
           THEN last.out.events =
                  << [kind |-> "OpenConfirmConnection",
                      connection_id |-> Some(last.connection_id)] >>
           ELSE "events" \notin DOMAIN last.out

C6_Witness ==
    /\ IsConfirm(last)
    /\ last.out.ok
    /\ Len(last.out.events) = 1
    /\ last.out.events[1].kind = "OpenConfirmConnection"

(***************************************************************************)
(* Channels and packets.                                                   *)
(***************************************************************************)
PortIds == {"transfer"}
ChannelIds == {0, 1}
\* The channel the fixture opens.
OpenChannelIds == {0}
Orders == {"Ordered", "Unordered"}
Sequences == 1..MaxSeq
\* The sequence numbers of the packets the local applications send.
SendSequences == 1..MaxSend
\* (timeout_height, timeout_timestamp) of the packets in use; 0 is "no timeout".
TimeoutPairs == {<<2, 0>>, <<0, 2>>, <<0, 0>>}
\* The timeouts of the packets the local applications send.
SendTimeoutPairs == {<<3, 2>>, <<2, 0>>, <<0, 0>>}
\* The timeouts named by the packets of acknowledgement and timeout messages.
RelayedTimeoutPairs == {<<3, 2>>, <<2, 0>>}
\* Channel id of the counterparty's end of a local channel.
CounterpartyChannelId(channel_id) == channel_id + 8

ChannelEnd(state, ordering, counterparty, connection_hops, version) ==
    [state |-> state, ordering |-> ordering, counterparty |-> counterparty,
     connection_hops |-> connection_hops, version |-> version]

Packet(seq, port_a, chan_a, port_b, chan_b, data, timeout_height, timeout_timestamp) ==
    [seq_on_a |-> seq, port_id_on_a |-> port_a, chan_id_on_a |-> chan_a,
     port_id_on_b |-> port_b, chan_id_on_b |-> chan_b, data |-> data,
     timeout_height_on_b |-> timeout_height,
     timeout_timestamp_on_b |-> timeout_timestamp]

sha256(bytes) == <<"sha256", bytes>>

\* H(be64(timeout_timestamp) || be64(revision) || be64(height) || sha256(data))
compute_packet_commitment(data, timeout_height, timeout_timestamp) ==
    sha256(<<timeout_timestamp, 0, timeout_height, sha256(data)>>)

compute_ack_commitment(ack) == sha256(ack)

\* A membership proof shows one value at one path under one root; a
\* non-membership proof shows that the path has no value (None).
\* Mutant: the value the proof shows is not compared.
verify_membership_any_value(proof, root, path, value) ==
    proof.root = root /\ proof.path = path

verify_membership(proof, root, path, value) ==
    proof.root = root /\ proof.path = path /\ proof.value = Some(value)

verify_non_membership(proof, root, path) ==
    proof.root = root /\ proof.path = path /\ proof.value = None

PacketErr(kind) == [ok |-> FALSE, err |-> [kind |-> kind]]
PacketOk(ctx) == [ok |-> TRUE, ctx |-> ctx]

\* Timestamp of the host block at a height.
host_timestamp(height) == height

(***************************************************************************)
(* SendPacket.                                                             *)
(***************************************************************************)
send_packet(ctx, port_id, channel_id, data, timeout_height, timeout_timestamp) ==
    LET chan == channel_end(ctx, ChannelEndPath(port_id, channel_id)) IN
    IF ~chan.ok THEN [ok |-> FALSE, err |-> chan.err]
    ELSE IF chan.val.state # "Open" THEN PacketErr("InvalidChannelState")
    ELSE
    LET conn == connection_end(ctx, chan.val.connection_hops[1]) IN
    IF ~conn.ok THEN [ok |-> FALSE, err |-> conn.err]
    ELSE IF conn.val.state # "Open" THEN PacketErr("ConnectionNotOpen")
    ELSE
    LET cs == client_state(ctx, conn.val.client_id) IN
    IF ~cs.ok THEN [ok |-> FALSE, err |-> cs.err]
    ELSE IF cs.val.frozen THEN PacketErr("FrozenClient")
    ELSE
    LET cons == consensus_state(ctx, conn.val.client_id, cs.val.latest_height) IN
    IF ~cons.ok THEN [ok |-> FALSE, err |-> cons.err]
    ELSE IF timeout_height = 0 /\ timeout_timestamp = 0 THEN PacketErr("MissingTimeout")
    ELSE IF ~(timeout_height > cs.val.latest_height
              \/ timeout_timestamp > cons.val.timestamp)
    THEN PacketErr("LowPacketTimeout")
    ELSE
    LET next == get_next_sequence_send(ctx, SeqSendPath(port_id, channel_id)) IN
    IF ~next.ok THEN [ok |-> FALSE, err |-> next.err]
    ELSE
    LET s1 == store_next_sequence_send(ctx, SeqSendPath(port_id, channel_id), next.val + 1)
        s2 == store_packet_commitment(s1, CommitmentPath(port_id, channel_id, next.val),
                  compute_packet_commitment(data, timeout_height, timeout_timestamp))
        s3 == emit_ibc_event(s2, [kind |-> "SendPacket", channel_id |-> channel_id,
                                  sequence |-> next.val])
    IN  [ok |-> TRUE, ctx |-> s3, sequence |-> next.val]

(***************************************************************************)
(* RecvPacket.  msg = [packet, proof_commitment_on_a, proof_height_on_a,   *)
(* ack], ack being what the application callback returns (<<>>: none yet). *)
(***************************************************************************)
recv_packet(ctx, height, msg) ==
    LET packet == msg.packet
        port_id == packet.port_id_on_b
        channel_id == packet.chan_id_on_b
        chan == channel_end(ctx, ChannelEndPath(port_id, channel_id))
    IN
    IF ~chan.ok THEN [ok |-> FALSE, err |-> chan.err]
    ELSE
    LET conn == connection_end(ctx, chan.val.connection_hops[1]) IN
    IF ~conn.ok THEN [ok |-> FALSE, err |-> conn.err]
    ELSE
    LET cons == consensus_state(ctx, conn.val.client_id, msg.proof_height_on_a) IN
    IF ~cons.ok THEN [ok |-> FALSE, err |-> cons.err]
    ELSE IF ~verify_membership(msg.proof_commitment_on_a, cons.val.root,
                CommitmentPath(packet.port_id_on_a, packet.chan_id_on_a, packet.seq_on_a),
                compute_packet_commitment(packet.data, packet.timeout_height_on_b,
                                          packet.timeout_timestamp_on_b))
    THEN PacketErr("PacketVerificationFailed")
    ELSE IF \/ (packet.timeout_height_on_b # 0 /\ height >= packet.timeout_height_on_b)
            \/ (packet.timeout_timestamp_on_b # 0
                  /\ host_timestamp(height) >= packet.timeout_timestamp_on_b)
    THEN PacketErr("PacketTimeout")
    ELSE
    LET ordered ==
            LET next == get_next_sequence_recv(ctx, SeqRecvPath(port_id, channel_id)) IN
            IF ~next.ok THEN [ok |-> FALSE, err |-> next.err]
            ELSE IF packet.seq_on_a # next.val
            THEN [ok |-> FALSE,
                  err |-> [kind |-> "UnexpectedSequence", expected |-> next.val,
                           got |-> packet.seq_on_a]]
            ELSE PacketOk(store_next_sequence_recv(ctx, SeqRecvPath(port_id, channel_id),
                                                   next.val + 1))
        unordered ==
            LET path == ReceiptPath(port_id, channel_id, packet.seq_on_a) IN
            IF get_packet_receipt(ctx, path).ok
            THEN PacketErr("PacketReceiptAlreadyExists")
            ELSE PacketOk(store_packet_receipt(ctx, path, "Receipt::Ok"))
        got == IF chan.val.ordering = "Ordered" THEN ordered ELSE unordered
    IN
    IF ~got.ok THEN got
    ELSE
    LET s1 == emit_ibc_event(got.ctx, [kind |-> "ReceivePacket", channel_id |-> channel_id,
                                       sequence |-> packet.seq_on_a])
        s2 == IF msg.ack = <<>> THEN s1
              ELSE emit_ibc_event(
                     store_packet_acknowledgement(
                        s1, AckPath(port_id, channel_id, packet.seq_on_a),
                        compute_ack_commitment(msg.ack)),
                     [kind |-> "WriteAcknowledgement", channel_id |-> channel_id,
                      sequence |-> packet.seq_on_a])
    IN  PacketOk(s2)

\* The local commitment of a packet must still exist and match the packet.
check_packet_commitment(ctx, packet) ==
    LET stored == get_packet_commitment(
                     ctx, CommitmentPath(packet.port_id_on_a, packet.chan_id_on_a,
                                         packet.seq_on_a))
    IN  IF ~stored.ok THEN PacketErr("PacketCommitmentNotFound")
        ELSE IF stored.val # compute_packet_commitment(
                                packet.data, packet.timeout_height_on_b,
                                packet.timeout_timestamp_on_b)
        THEN PacketErr("IncorrectPacketCommitment")
        ELSE [ok |-> TRUE]

(***************************************************************************)
(* AcknowledgePacket.  msg = [packet, acknowledgement, proof_acked_on_b,   *)
(* proof_height_on_b].                                                     *)
(***************************************************************************)
acknowledge_packet(ctx, msg) ==
    LET packet == msg.packet
        port_id == packet.port_id_on_a
        channel_id == packet.chan_id_on_a
        chan == channel_end(ctx, ChannelEndPath(port_id, channel_id))
    IN
    IF ~chan.ok THEN [ok |-> FALSE, err |-> chan.err]
    ELSE
    LET conn == connection_end(ctx, chan.val.connection_hops[1])
        commitment == check_packet_commitment(ctx, packet)
    IN
    IF ~conn.ok THEN [ok |-> FALSE, err |-> conn.err]
    ELSE IF ~commitment.ok THEN commitment
    ELSE
    LET cons == consensus_state(ctx, conn.val.client_id, msg.proof_height_on_b) IN
    IF ~cons.ok THEN [ok |-> FALSE, err |-> cons.err]
    ELSE IF ~verify_membership(msg.proof_acked_on_b, cons.val.root,
                AckPath(packet.port_id_on_b, packet.chan_id_on_b, packet.seq_on_a),
                compute_ack_commitment(msg.acknowledgement))
    THEN PacketErr("PacketVerificationFailed")
    ELSE
    LET next == get_next_sequence_ack(ctx, SeqAckPath(port_id, channel_id))
        path == CommitmentPath(port_id, channel_id, packet.seq_on_a)
        event == [kind |-> "AcknowledgePacket", channel_id |-> channel_id,
                  sequence |-> packet.seq_on_a]
    IN
    IF chan.val.ordering = "Ordered"
    THEN IF ~next.ok THEN [ok |-> FALSE, err |-> next.err]
         ELSE IF packet.seq_on_a # next.val
         THEN [ok |-> FALSE,
               err |-> [kind |-> "UnexpectedSequence", expected |-> next.val,
                        got |-> packet.seq_on_a]]
         ELSE PacketOk(emit_ibc_event(
                  delete_packet_commitment(
                     store_next_sequence_ack(ctx, SeqAckPath(port_id, channel_id),
                                             next.val + 1),
                     path),
                  event))
    ELSE PacketOk(emit_ibc_event(delete_packet_commitment(ctx, path), event))

(***************************************************************************)
(* TimeoutPacket and TimeoutOnClose.  msg = [packet, next_seq_recv_on_b,   *)
(* proof_unreceived_on_b, proof_height_on_b], and for TimeoutOnClose also  *)
(* proof_close_on_b.                                                       *)
(***************************************************************************)
timeout_packet_checked(ctx, msg, on_close) ==
    LET packet == msg.packet
        port_id == packet.port_id_on_a
        channel_id == packet.chan_id_on_a
        chan == channel_end(ctx, ChannelEndPath(port_id, channel_id))
    IN
    IF ~chan.ok THEN [ok |-> FALSE, err |-> chan.err]
    ELSE
    LET conn == connection_end(ctx, chan.val.connection_hops[1])
        commitment == check_packet_commitment(ctx, packet)
    IN
    IF ~conn.ok THEN [ok |-> FALSE, err |-> conn.err]
    ELSE IF ~commitment.ok THEN commitment
    ELSE
    LET cons == consensus_state(ctx, conn.val.client_id, msg.proof_height_on_b) IN
    IF ~cons.ok THEN [ok |-> FALSE, err |-> cons.err]
    ELSE IF ~(\/ (packet.timeout_height_on_b # 0
                    /\ msg.proof_height_on_b >= packet.timeout_height_on_b)
              \/ (packet.timeout_timestamp_on_b # 0
                    /\ cons.val.timestamp >= packet.timeout_timestamp_on_b))
    THEN PacketErr("PacketTimeoutNotReached")
    ELSE IF on_close
            /\ ~verify_membership(msg.proof_close_on_b, cons.val.root,
                   ChannelEndPath(packet.port_id_on_b, packet.chan_id_on_b),
                   ChannelEnd("Closed", chan.val.ordering,
                              [port_id |-> port_id, channel_id |-> Some(channel_id)],
                              <<conn.val.counterparty.connection_id>>,
                              chan.val.version))
    THEN PacketErr("ChannelVerificationFailed")
    ELSE
    LET path == CommitmentPath(port_id, channel_id, packet.seq_on_a)
        event == [kind |-> "TimeoutPacket", channel_id |-> channel_id,
                  sequence |-> packet.seq_on_a]
    IN
    IF chan.val.ordering = "Ordered"
    THEN IF packet.seq_on_a < msg.next_seq_recv_on_b
         THEN PacketErr("InvalidPacketSequence")
         ELSE IF ~verify_membership(msg.proof_unreceived_on_b, cons.val.root,
                     SeqRecvPath(packet.port_id_on_b, packet.chan_id_on_b),
                     msg.next_seq_recv_on_b)
         THEN PacketErr("PacketVerificationFailed")
         ELSE PacketOk(emit_ibc_event(
                  store_channel(delete_packet_commitment(ctx, path),
                                ChannelEndPath(port_id, channel_id),
                                [chan.val EXCEPT !.state = "Closed"]),
                  event))
    ELSE IF ~verify_non_membership(msg.proof_unreceived_on_b, cons.val.root,
                ReceiptPath(packet.port_id_on_b, packet.chan_id_on_b, packet.seq_on_a))
         THEN PacketErr("PacketVerificationFailed")
         ELSE PacketOk(emit_ibc_event(delete_packet_commitment(ctx, path), event))

timeout_packet(ctx, msg) == timeout_packet_checked(ctx, msg, FALSE)

timeout_on_close(ctx, msg) == timeout_packet_checked(ctx, msg, TRUE)

(***************************************************************************)
(* The packet lifecycle on one open channel.  The context is set up as the *)
(* testkit fixtures do it: a client at height 1, an Open connection, an    *)
(* Open channel on port "transfer" whose three sequence counters are 1.    *)
(***************************************************************************)
PacketData == <<"data">>
Acknowledgements == {<<>>, <<"ack">>}

\* The counters of the fixture are raised from 0, where a build with overflow
\* checks and one without give the same context.
FixtureStore(ordering) ==
    LET s1 == store_client_state(DefaultStore, 0, [latest_height |-> 1, frozen |-> FALSE])
        s2 == increase_client_counter(
                  store_consensus_state(s1, 0, 1, ConsensusStateAt(1)), TRUE).val
        s3 == store_connection(s2, 0,
                  ConnectionEnd("Open", 0, Counterparty(7, Some(5), counterparty_prefix),
                                get_compatible_versions, 0))
        s4 == increase_connection_counter(store_connection_to_client(s3, 0, 0), TRUE).val
        s5 == store_channel(s4, ChannelEndPath("transfer", 0),
                  ChannelEnd("Open", ordering,
                             [port_id |-> "transfer",
                              channel_id |-> Some(CounterpartyChannelId(0))],
                             <<0>>, "ics20-1"))
        s6 == store_next_sequence_send(s5, SeqSendPath("transfer", 0), 1)
        s7 == store_next_sequence_recv(s6, SeqRecvPath("transfer", 0), 1)
        s8 == store_next_sequence_ack(s7, SeqAckPath("transfer", 0), 1)
    IN  increase_channel_counter(s8, TRUE).val

PacketCall(op, channel_id, sequence, out) ==
    [op |-> op, channel_id |-> channel_id, sequence |-> sequence,
     ok |-> out.ok, err |-> IF out.ok THEN [kind |-> "none"] ELSE out.err]

LogAppend(log, key, entry) ==
    StoreSet(log, key, Append(IF key \in DOMAIN log THEN log[key] ELSE <<>>, entry))

LogOf(log, key) == IF key \in DOMAIN log THEN log[key] ELSE <<>>

\* The host produces a block.
AdvanceBlock ==
    /\ host_height < MaxHeight
    /\ host_height' = host_height + 1
    /\ last' = [op |-> "advance_block"]
    /\ UNCHANGED <<ibc_store, recv_log, end_log>>

\* The client of the counterparty is updated to the next counterparty height.
UpdateClient ==
    /\ client_state(ibc_store, 0).ok
    /\ LET cs == client_state(ibc_store, 0).val
           h == cs.latest_height + 1
       IN  /\ h <= MaxHeight
           /\ ibc_store' = store_client_state(
                              store_consensus_state(ibc_store, 0, h, ConsensusStateAt(h)),
                              0, [cs EXCEPT !.latest_height = h])
    /\ last' = [op |-> "update_client", client_id |-> 0]
    /\ UNCHANGED <<host_height, recv_log, end_log>>

SendPacket ==
    /\ \E channel_id \in OpenChannelIds, tp \in SendTimeoutPairs :
         LET out == send_packet(ibc_store, "transfer", channel_id, PacketData, tp[1], tp[2]) IN
         /\ out.ok => out.sequence <= MaxSend
         /\ ibc_store' = IF out.ok THEN out.ctx ELSE ibc_store
         /\ last' = PacketCall("send_packet", channel_id,
                               IF out.ok THEN out.sequence ELSE 0, out)
    /\ UNCHANGED <<host_height, recv_log, end_log>>

\* A packet of the counterparty addressed to a local channel, and one sent
\* from a local channel.
InboundPacket(channel_id, seq, tp) ==
    Packet(seq, "transfer", CounterpartyChannelId(channel_id), "transfer", channel_id,
           PacketData, tp[1], tp[2])

OutboundPacket(channel_id, seq, tp) ==
    Packet(seq, "transfer", channel_id, "transfer", CounterpartyChannelId(channel_id),
           PacketData, tp[1], tp[2])

\* A proof as a relayer builds it for a height, and one built for no root at all.
Proof(good, height, path, value) ==
    [root |-> IF good THEN height ELSE 0, path |-> path, value |-> value]

\* Proof heights with a proof built for that height, and one proof that
\* verifies under no root.
ProofHeights == {<<h, TRUE>> : h \in Heights} \cup {<<1, FALSE>>}

RecvPacket ==
    /\ \E channel_id \in OpenChannelIds, seq \in Sequences,
          tp \in TimeoutPairs \ {<<0, 0>>}, ack \in Acknowledgements,
          hg \in ProofHeights :
         LET packet == InboundPacket(channel_id, seq, tp)
             msg == [packet |-> packet,
                     proof_commitment_on_a |->
                        Proof(hg[2], hg[1],
                              CommitmentPath(packet.port_id_on_a, packet.chan_id_on_a, seq),
                              Some(compute_packet_commitment(packet.data, tp[1], tp[2]))),
                     proof_height_on_a |-> hg[1],
                     ack |-> ack]
             out == recv_packet(ibc_store, host_height, msg)
         IN  /\ ibc_store' = IF out.ok THEN out.ctx ELSE ibc_store
             /\ recv_log' = IF out.ok THEN LogAppend(recv_log, channel_id, seq) ELSE recv_log
             /\ last' = PacketCall("recv_packet", channel_id, seq, out)
    /\ UNCHANGED <<host_height, end_log>>

AcknowledgePacket ==
    /\ \E channel_id \in OpenChannelIds, seq \in SendSequences,
          tp \in RelayedTimeoutPairs, hg \in ProofHeights :
         LET packet == OutboundPacket(channel_id, seq, tp)
             msg == [packet |-> packet,
                     acknowledgement |-> <<"ack">>,
                     proof_acked_on_b |->
                        Proof(hg[2], hg[1],
                              AckPath(packet.port_id_on_b, packet.chan_id_on_b, seq),
                              Some(compute_ack_commitment(<<"ack">>))),
                     proof_height_on_b |-> hg[1]]
             out == acknowledge_packet(ibc_store, msg)
         IN  /\ ibc_store' = IF out.ok THEN out.ctx ELSE ibc_store
             /\ end_log' = IF out.ok THEN LogAppend(end_log, <<channel_id, seq>>, "ack")
                           ELSE end_log
             /\ last' = PacketCall("acknowledge_packet", channel_id, seq, out)
    /\ UNCHANGED <<host_height, recv_log>>

TimeoutMsgs(ctx, channel_id, seq, tp, h, good) ==
    LET packet == OutboundPacket(channel_id, seq, tp)
        chan == channel_end(ctx, ChannelEndPath("transfer", channel_id))
        ordered == chan.ok /\ chan.val.ordering = "Ordered"
        close == IF chan.ok
                 THEN Some(ChannelEnd("Closed", chan.val.ordering,
                              [port_id |-> "transfer", channel_id |-> Some(channel_id)],
                              <<Some(5)>>, chan.val.version))
                 ELSE None
    IN  { [packet |-> packet,
           next_seq_recv_on_b |-> n,
           proof_unreceived_on_b |->
              IF ordered
              THEN Proof(good, h, SeqRecvPath(packet.port_id_on_b, packet.chan_id_on_b),
                         Some(n))
              ELSE Proof(good, h,
                         ReceiptPath(packet.port_id_on_b, packet.chan_id_on_b, seq), None),
           proof_close_on_b |->
              Proof(good, h, ChannelEndPath(packet.port_id_on_b, packet.chan_id_on_b),
                    close),
           proof_height_on_b |-> h] : n \in IF ordered THEN {seq, seq + 1} ELSE {1} }

TimeoutPacket ==
    /\ \E channel_id \in OpenChannelIds, seq \in SendSequences,
          tp \in RelayedTimeoutPairs, hg \in ProofHeights :
         \E msg \in TimeoutMsgs(ibc_store, channel_id, seq, tp, hg[1], hg[2]) :
         LET out == timeout_packet(ibc_store, msg) IN
         /\ ibc_store' = IF out.ok THEN out.ctx ELSE ibc_store
         /\ end_log' = IF out.ok THEN LogAppend(end_log, <<channel_id, seq>>, "timeout")
                       ELSE end_log
         /\ last' = PacketCall("timeout_packet", channel_id, seq, out)
    /\ UNCHANGED <<host_height, recv_log>>

TimeoutOnClose ==
    /\ \E channel_id \in OpenChannelIds, seq \in SendSequences,
          tp \in RelayedTimeoutPairs, hg \in ProofHeights :
         \E msg \in TimeoutMsgs(ibc_store, channel_id, seq, tp, hg[1], hg[2]) :
         LET out == timeout_on_close(ibc_store, msg) IN
         /\ ibc_store' = IF out.ok THEN out.ctx ELSE ibc_store
         /\ end_log' = IF out.ok
                       THEN LogAppend(end_log, <<channel_id, seq>>, "timeout_on_close")
                       ELSE end_log
         /\ last' = PacketCall("timeout_on_close", channel_id, seq, out)
    /\ UNCHANGED <<host_height, recv_log>>

PacketInit ==
    /\ \E ordering \in Orders : ibc_store = FixtureStore(ordering)
    /\ host_height = 1
    /\ last = NoCall
    /\ recv_log = EmptyStore
    /\ end_log = EmptyStore

\* The receiving side of the channel: packets of the counterparty arrive.
RecvNext ==
    \/ AdvanceBlock
    \/ RecvPacket

RecvSpec == PacketInit /\ [][RecvNext]_vars

\* The sending side of the channel: packets are sent, then acknowledged or
\* timed out on proofs of the counterparty's state.
SendNext ==
    \/ UpdateClient
    \/ SendPacket
    \/ AcknowledgePacket
    \/ TimeoutPacket
    \/ TimeoutOnClose

\* The host handles every message that is delivered to it, and relayers keep
\* delivering messages of each kind; whether a delivered message carries a
\* proof that verifies is up to the relayer.
SendFairness ==
    /\ WF_vars(UpdateClient)
    /\ WF_vars(SendPacket)
    /\ WF_vars(AcknowledgePacket)
    /\ WF_vars(TimeoutPacket)
    /\ WF_vars(TimeoutOnClose)

SendSpec == PacketInit /\ [][SendNext]_vars /\ SendFairness

(***************************************************************************)
(* Properties of the receiving side.                                       *)
(***************************************************************************)
\* Ordering of the channel end stored for a local channel.
OrderingOf(ctx, channel_id) ==
    channel_end(ctx, ChannelEndPath("transfer", channel_id)).val.ordering

\* Number of successful receives of a sequence number on a channel.
ReceivedCount(channel_id, seq) ==
    LET log == LogOf(recv_log, channel_id)
    IN  Cardinality({i \in DOMAIN log : log[i] = seq})

IsRecv(call) == call.op = "recv_packet"

\* Errors of the checks recv_packet makes before it looks at the receipt.
EarlierRecvErrors ==
    {"PacketVerificationFailed", "PacketTimeout", "ConsensusStateNotFound"}

\* C7: on an unordered channel every sequence number is received successfully
\* at most once and its receipt exists if and only if a receive of it has
\* succeeded; a RecvPacket of a packet whose receipt exists fails and changes
\* nothing, with PacketReceiptAlreadyExists once the proof and timeout checks
\* have passed.
C7_UnorderedReceivedAtMostOnce ==
    /\ [](\A channel_id \in OpenChannelIds, seq \in Sequences :
            OrderingOf(ibc_store, channel_id) = "Unordered"
              => /\ ReceivedCount(channel_id, seq) <= 1
                 /\ get_packet_receipt(ibc_store,
                                       ReceiptPath("transfer", channel_id, seq)).ok
                      <=> ReceivedCount(channel_id, seq) = 1)
    /\ [][ (/\ IsRecv(last')
            /\ OrderingOf(ibc_store, last'.channel_id) = "Unordered"
            /\ get_packet_receipt(
                  ibc_store, ReceiptPath("transfer", last'.channel_id, last'.sequence)).ok)
           => /\ ~last'.ok
              /\ ibc_store' = ibc_store
              /\ recv_log' = recv_log
              /\ last'.err.kind \in EarlierRecvErrors \cup {"PacketReceiptAlreadyExists"}
         ]_vars

\* A packet was received once and its replay failed on the receipt.
C7_Witness ==
    /\ IsRecv(last)
    /\ ~last.ok
    /\ last.err.kind = "PacketReceiptAlreadyExists"
    /\ OrderingOf(ibc_store, last.channel_id) = "Unordered"
    /\ ReceivedCount(last.channel_id, last.sequence) = 1
    /\ ReceiptPath("transfer", last.channel_id, last.sequence)
          \in ibc_store.packet_receipt_store

\* C8: on an ordered channel the successfully received sequence numbers are
\* 1, 2, 3, ... in that order without gaps; a RecvPacket succeeds only for the
\* stored nextSequenceRecv, which it increases by one, and nextSequenceRecv
\* never decreases.
C8_OrderedReceivedInSequence ==
    /\ [](\A channel_id \in OpenChannelIds :
            OrderingOf(ibc_store, channel_id) = "Ordered"
              => LET log == LogOf(recv_log, channel_id)
                     next == get_next_sequence_recv(
                                ibc_store, SeqRecvPath("transfer", channel_id))
                 IN  /\ \A i \in DOMAIN log : log[i] = i
                     /\ next.ok
                     /\ next.val = Len(log) + 1)
    /\ [][ \A channel_id \in OpenChannelIds :
             LET path == SeqRecvPath("transfer", channel_id)
                 before == get_next_sequence_recv(ibc_store, path).val
                 after == get_next_sequence_recv(ibc_store', path).val
             IN  OrderingOf(ibc_store, channel_id) = "Ordered"
                   => /\ after >= before
                      /\ (IsRecv(last') /\ last'.channel_id = channel_id /\ last'.ok)
                           => /\ last'.sequence = before
                              /\ after = before + 1
                      /\ ~(IsRecv(last') /\ last'.channel_id = channel_id /\ last'.ok)
                           => after = before
         ]_vars

\* Packets 1 and 2 were received in order on an ordered channel.
C8_Witness ==
    /\ IsRecv(last)
    /\ last.ok
    /\ last.sequence = 2
    /\ OrderingOf(ibc_store, last.channel_id) = "Ordered"
    /\ LogOf(recv_log, last.channel_id) = <<1, 2>>
    /\ get_next_sequence_recv(ibc_store, SeqRecvPath("transfer", last.channel_id)).val = 3

(***************************************************************************)
(* Properties of the sending side.                                         *)
(***************************************************************************)
IsPacketEnd(call) ==
    call.op \in {"acknowledge_packet", "timeout_packet", "timeout_on_close"}

\* The successful acknowledgements and timeouts of a sent packet so far.
EndsOf(channel_id, seq) == LogOf(end_log, <<channel_id, seq>>)

\* The packet was sent: send_packet has emitted its event.
WasSent(ctx, channel_id, seq) ==
    \E i \in DOMAIN ctx.events :
        ctx.events[i] = [kind |-> "SendPacket", channel_id |-> channel_id,
                         sequence |-> seq]

\* C9 as stated: every sent packet is eventually acknowledged or timed out.
C9_EverySentPacketEventuallyEnds ==
    \A channel_id \in OpenChannelIds, seq \in SendSequences :
        WasSent(ibc_store, channel_id, seq) ~> (Len(EndsOf(channel_id, seq)) = 1)

\* C9: for every sent packet at most one of Acknowledgement, Timeout and
\* TimeoutOnClose ever succeeds; the one that succeeds finds the commitment
\* and deletes it, and from then on the commitment stays absent and every
\* further Acknowledgement, Timeout or TimeoutOnClose of that packet fails.
C9_AtMostOneEndPerPacket ==
    /\ [](\A channel_id \in OpenChannelIds, seq \in SendSequences :
            LET path == CommitmentPath("transfer", channel_id, seq) IN
            /\ Len(EndsOf(channel_id, seq)) <= 1
            /\ Len(EndsOf(channel_id, seq)) = 1
                 => /\ WasSent(ibc_store, channel_id, seq)
                    /\ ~get_packet_commitment(ibc_store, path).ok)
    /\ [][ IsPacketEnd(last')
             => LET path == CommitmentPath("transfer", last'.channel_id, last'.sequence)
                    ends == EndsOf(last'.channel_id, last'.sequence)
                IN  /\ last'.ok
                      => /\ ends = <<>>
                         /\ get_packet_commitment(ibc_store, path).ok
                         /\ ~get_packet_commitment(ibc_store', path).ok
                    /\ ends # <<>>
                      => /\ ~last'.ok
                         /\ last'.err.kind = "PacketCommitmentNotFound"
                         /\ ibc_store' = ibc_store
         ]_vars

\* A packet was timed out or acknowledged, and a later attempt to end it again
\* failed on the missing commitment.
C9_Witness ==
    /\ IsPacketEnd(last)
    /\ ~last.ok
    /\ last.err.kind = "PacketCommitmentNotFound"
    /\ Len(EndsOf(last.channel_id, last.sequence)) = 1
    /\ WasSent(ibc_store, last.channel_id, last.sequence)
    /\ ~get_packet_commitment(
           ibc_store, CommitmentPath("transfer", last.channel_id, last.sequence)).ok

(***************************************************************************)
(* The ExecutionContext operations called one at a time on a context that  *)
(* holds the commitment of a sent packet.                                  *)
(***************************************************************************)
CtxPaths == {<<"transfer", 0, seq>> : seq \in Sequences}
CtxCommitments ==
    {compute_packet_commitment(PacketData, tp[1], tp[2]) : tp \in RelayedTimeoutPairs}

CtxCall(op, path) == [op |-> op, path |-> path, step |-> last.step + 1]

\* One call of an operation that returns the context ctx.
CtxStep(op, path, ctx) ==
    /\ last.step < MaxOps
    /\ ibc_store' = ctx
    /\ last' = CtxCall(op, path)
    /\ UNCHANGED <<host_height, recv_log, end_log>>

\* One call of a store operation that writes value at path and returns ctx.
CtxWrite(op, path, value, ctx) ==
    /\ last.step < MaxOps
    /\ ibc_store' = ctx
    /\ last' = [op |-> op, path |-> path, value |-> value, step |-> last.step + 1]
    /\ UNCHANGED <<host_height, recv_log, end_log>>

StorePacketCommitment ==
    \E path \in CtxPaths, commitment \in CtxCommitments :
        CtxWrite("store_packet_commitment", path, commitment,
                 store_packet_commitment(ibc_store, path, commitment))

DeletePacketCommitment ==
    \E path \in CtxPaths :
        CtxStep("delete_packet_commitment", path,
                delete_packet_commitment(ibc_store, path))

StorePacketReceipt ==
    \E path \in CtxPaths :
        CtxStep("store_packet_receipt", path,
                store_packet_receipt(ibc_store, path, "Receipt::Ok"))

StorePacketAcknowledgement ==
    \E path \in CtxPaths :
        LET ack_commitment == compute_ack_commitment(<<"ack">>) IN
        CtxWrite("store_packet_acknowledgement", path, ack_commitment,
                 store_packet_acknowledgement(ibc_store, path, ack_commitment))

DeletePacketAcknowledgement ==
    \E path \in CtxPaths :
        CtxStep("delete_packet_acknowledgement", path,
                delete_packet_acknowledgement(ibc_store, path))

StoreChannel ==
    \E state \in {"Open", "Closed"} :
        LET path == ChannelEndPath("transfer", 0)
            chan_end == [channel_end(ibc_store, path).val EXCEPT !.state = state]
        IN  CtxWrite("store_channel", path, chan_end,
                     store_channel(ibc_store, path, chan_end))

StoreConnection ==
    \E delay_period \in DelayPeriods :
        LET conn_end ==
                [connection_end(ibc_store, 0).val EXCEPT !.delay_period = delay_period]
        IN  CtxWrite("store_connection", <<0>>, conn_end,
                     store_connection(ibc_store, 0, conn_end))

StoreConnectionToClient ==
    \E client_id \in ClientIds, conn_id \in ConnectionIds :
        CtxWrite("store_connection_to_client", <<client_id>>, conn_id,
                 store_connection_to_client(ibc_store, client_id, conn_id))

StoreNextSequenceSend ==
    \E seq \in Sequences :
        CtxWrite("store_next_sequence_send", SeqSendPath("transfer", 0), seq,
                 store_next_sequence_send(ibc_store, SeqSendPath("transfer", 0), seq))

StoreNextSequenceRecv ==
    \E seq \in Sequences :
        CtxWrite("store_next_sequence_recv", SeqRecvPath("transfer", 0), seq,
                 store_next_sequence_recv(ibc_store, SeqRecvPath("transfer", 0), seq))

StoreNextSequenceAck ==
    \E seq \in Sequences :
        CtxWrite("store_next_sequence_ack", SeqAckPath("transfer", 0), seq,
                 store_next_sequence_ack(ibc_store, SeqAckPath("transfer", 0), seq))

\* One call of an operation that returns a Result or unwinds: the context is
\* the one returned, and the one before the call when there is none.
CtxResult(op, out) ==
    /\ last.step < MaxOps
    /\ ibc_store' = IF out.ok THEN out.val ELSE ibc_store
    /\ last' = [op |-> op, path |-> <<>>, step |-> last.step + 1,
                out |-> [f \in (DOMAIN out) \ {"val"} |-> out[f]]]
    /\ UNCHANGED <<host_height, recv_log, end_log>>

IncreaseClientCounter ==
    \E overflow_checks \in BOOLEAN :
        CtxResult("increase_client_counter",
                  increase_client_counter(ibc_store, overflow_checks))

IncreaseConnectionCounter ==
    \E overflow_checks \in BOOLEAN :
        CtxResult("increase_connection_counter",
                  increase_connection_counter(ibc_store, overflow_checks))

IncreaseChannelCounter ==
    \E overflow_checks \in BOOLEAN :
        CtxResult("increase_channel_counter",
                  increase_channel_counter(ibc_store, overflow_checks))

EmitIbcEvent ==
    CtxStep("emit_ibc_event", <<>>,
            emit_ibc_event(ibc_store, [kind |-> "Message", module |-> "channel"]))

LogMessage ==
    CtxStep("log_message", <<>>, log_message(ibc_store, "message"))

\* The fixture after its application has sent packet 1 on the channel.
\* The context with its three counters at n.
WithCounters(ctx, n) ==
    [ctx EXCEPT !.client_counter = StoreSet(@, NextClientSequencePath, n),
                !.conn_counter = StoreSet(@, NextConnectionSequencePath, n),
                !.channel_counter = StoreSet(@, NextChannelSequencePath, n)]

\* The fixture after a packet was sent, with its counters as the fixture left
\* them or one below u64::MAX.
CtxInit ==
    /\ \E ordering \in Orders, late \in BOOLEAN :
         LET ctx == send_packet(FixtureStore(ordering), "transfer", 0,
                                PacketData, 3, 2).ctx
         IN  ibc_store = IF late THEN WithCounters(ctx, U64_MAX - 1) ELSE ctx
    /\ host_height = 1
    /\ last = [op |-> "none", path |-> <<>>, step |-> 0]
    /\ recv_log = EmptyStore
    /\ end_log = EmptyStore

CtxNext ==
    \/ StorePacketCommitment
    \/ DeletePacketCommitment
    \/ StorePacketReceipt
    \/ StorePacketAcknowledgement
    \/ DeletePacketAcknowledgement
    \/ StoreChannel
    \/ StoreConnection
    \/ StoreConnectionToClient
    \/ StoreNextSequenceSend
    \/ StoreNextSequenceRecv
    \/ StoreNextSequenceAck
    \/ IncreaseClientCounter
    \/ IncreaseConnectionCounter
    \/ IncreaseChannelCounter
    \/ EmitIbcEvent
    \/ LogMessage

CtxSpec == CtxInit /\ [][CtxNext]_vars

\* C10: a commitment that is present is removed by delete_packet_commitment of
\* exactly its path and by nothing else: every other operation of the
\* execution context, and a deletion of another commitment path, leaves it
\* present with the same value (store_packet_commitment of its own path keeps
\* it present and sets the value).
C10_CommitmentRemovedOnlyByItsDelete ==
    [][ \A path \in DOMAIN ibc_store.packet_commitment_store :
          LET before == get_packet_commitment(ibc_store, path)
              after == get_packet_commitment(ibc_store', path)
          IN  IF last'.op = "delete_packet_commitment" /\ last'.path = path
              THEN ~after.ok
              ELSE /\ after.ok
                   /\ ~(last'.op = "store_packet_commitment" /\ last'.path = path)
                        => after.val = before.val
      ]_vars

\* The commitment path of packet 2 was deleted; the commitment of packet 1
\* is still present with the value send_packet stored.
C10_Witness ==
    /\ last.op = "delete_packet_commitment"
    /\ last.path = CommitmentPath("transfer", 0, 2)
    /\ ~get_packet_commitment(ibc_store, last.path).ok
    /\ get_packet_commitment(ibc_store, CommitmentPath("transfer", 0, 1)).ok
    /\ get_packet_commitment(ibc_store, CommitmentPath("transfer", 0, 1)).val
         = compute_packet_commitment(PacketData, 3, 2)

\* C11: get_packet_receipt of a path returns Receipt::Ok exactly when
\* store_packet_receipt was called for that path before (no receipt is set
\* before the first call), and otherwise fails with PacketReceiptNotFound
\* carrying the sequence of the path; no operation removes a receipt.
C11_ReceiptPresentIffStored ==
    /\ \A path \in CtxPaths : ~get_packet_receipt(ibc_store, path).ok
    /\ [](\A path \in CtxPaths :
            LET got == get_packet_receipt(ibc_store, path) IN
            IF got.ok THEN got.val = "Receipt::Ok"
            ELSE got.err = [kind |-> "PacketReceiptNotFound", sequence |-> path[3]])
    /\ [][ \A path \in CtxPaths :
             get_packet_receipt(ibc_store', path).ok
               <=> \/ get_packet_receipt(ibc_store, path).ok
                   \/ (last'.op = "store_packet_receipt" /\ last'.path = path)
         ]_vars

\* The receipt of packet 1 was stored and is still found after another
\* receipt was stored; a receipt that was never stored is reported missing.
C11_Witness ==
    /\ last.op = "store_packet_receipt"
    /\ last.path = ReceiptPath("transfer", 0, 2)
    /\ last.step = 2
    /\ get_packet_receipt(ibc_store, ReceiptPath("transfer", 0, 1)).ok
    /\ get_packet_receipt(ibc_store, ReceiptPath("transfer", 0, 2)).ok

\* The three identifier counters of a context, as read by the getters.
Counters(ctx) ==
    [client |-> client_counter(ctx).val,
     connection |-> connection_counter(ctx).val,
     channel |-> channel_counter(ctx).val]

\* The step is a call of the increase operation op that returned Ok.
Increased(op, l) == l.op = op /\ l.out.ok

\* C12: the client, connection and channel counters never decrease; each
\* successful increase_*_counter raises its own counter by exactly 1 and
\* leaves the other two unchanged, and no other operation changes a counter.
C12_CountersMonotonic ==
    [][ LET before == Counters(ibc_store)
            after == Counters(ibc_store')
        IN  /\ ~u64_lt(after.client, before.client)
            /\ ~u64_lt(after.connection, before.connection)
            /\ ~u64_lt(after.channel, before.channel)
            /\ after.client =
                 IF Increased("increase_client_counter", last')
                 THEN before.client + 1 ELSE before.client
            /\ after.connection =
                 IF Increased("increase_connection_counter", last')
                 THEN before.connection + 1 ELSE before.connection
            /\ after.channel =
                 IF Increased("increase_channel_counter", last')
                 THEN before.channel + 1 ELSE before.channel
      ]_vars

\* C13: in every reachable state of the context a call of
\* increase_client_counter and a call of increase_connection_counter return
\* Ok, in a build with overflow checks and in one without, and the counter
\* read afterwards is the previous value plus one as a u64.
C13_CounterIncreaseNeverFails ==
    \A overflow_checks \in BOOLEAN :
        LET client == increase_client_counter(ibc_store, overflow_checks)
            connection == increase_connection_counter(ibc_store, overflow_checks)
        IN  /\ client.ok
            /\ client_counter(client.val).ok
            /\ client_counter(client.val).val = client_counter(ibc_store).val + 1
            /\ connection.ok
            /\ connection_counter(connection.val).ok
            /\ connection_counter(connection.val).val
                 = connection_counter(ibc_store).val + 1

(***************************************************************************)
(* The store keeps, next to the pending view the operations above read and *)
(* write, the views committed at earlier heights (ctx.committed, oldest    *)
(* first).  commit() adds the pending view as the newest committed one.    *)
(***************************************************************************)
commit(ctx) ==
    [ctx EXCEPT !.committed =
                    Append(@, [f \in (DOMAIN ctx) \ {"committed"} |-> ctx[f]])]

\* The view at StoreHeight::Pending and the one at the latest committed height.
PendingView(ctx) == ctx
CommittedView(ctx) == ctx.committed[Len(ctx.committed)]

(***************************************************************************)
(* QueryContext for MockGenericContext.  Lists are modelled as sets, except*)
(* those that follow a caller's list of sequences.  `view` is the view of  *)
(* the store the query reads.                                              *)
(***************************************************************************)
client_states(view) ==
    Ok({<<id, client_state(view, id).val>> : id \in DOMAIN view.client_state_store})

\* Height::new fails for a key whose revision height is 0, and the failure of
\* one key is the result of the whole query.
consensus_states(view, client_id) ==
    LET keys == {k \in DOMAIN view.consensus_state_store : k[1] = client_id}
    IN  IF \E key \in keys : key[2] = 0
        THEN Err([kind |-> "InvalidHeight"])
        ELSE Ok({<<key[2], view.consensus_state_store[key]>> : key \in keys})

consensus_state_heights(view, client_id) ==
    LET keys == {k \in DOMAIN view.consensus_state_store : k[1] = client_id}
    IN  IF \E key \in keys : key[2] = 0
        THEN Err([kind |-> "InvalidHeight"])
        ELSE Ok({key[2] : key \in keys})

client_connection_ends(view, client_id) ==
    LET got == StoreGet(view.connection_ids_store, client_id)
    IN  Ok(IF got.some THEN got.val ELSE <<>>)

connection_ends(view) ==
    Ok({[connection_id |-> id, connection_end |-> connection_end(view, id).val] :
          id \in DOMAIN view.connection_end_store})

channel_ends(view) ==
    Ok({[port_id |-> path[1], channel_id |-> path[2],
         channel_end |-> channel_end(view, path).val] :
          path \in DOMAIN view.channel_end_store})

\* packet_commitments that does not keep to the channel asked for.
packet_commitments_all_channels(view, channel_end_path) ==
    Ok({[seq |-> path[3], port_id |-> path[1], chan_id |-> path[2],
         data |-> get_packet_commitment(view, path).val] :
          path \in DOMAIN view.packet_commitment_store})

packet_commitments(view, channel_end_path) ==
    Ok({[seq |-> path[3], port_id |-> path[1], chan_id |-> path[2],
         data |-> get_packet_commitment(view, path).val] :
          path \in {k \in DOMAIN view.packet_commitment_store :
                      k[1] = channel_end_path[1] /\ k[2] = channel_end_path[2]}})

\* packet_acknowledgements that does not keep to the channel asked for.
packet_acknowledgements_all_channels(view, channel_end_path, sequences) ==
    LET stored == DOMAIN view.packet_ack_store
        state(path) == [seq |-> path[3], port_id |-> path[1], chan_id |-> path[2],
                        data |-> get_packet_acknowledgement(view, path).val]
        has_ack(seq) == \E k \in stored : k[3] = seq
        given == SelectSeq(sequences, has_ack)
    IN  IF Len(sequences) = 0
        THEN Ok({state(path) : path \in stored})
        ELSE Ok([i \in 1..Len(given) |->
                    state(CHOOSE k \in stored : k[3] = given[i])])

\* All acknowledgements of the channel when sequences is empty (in the
\* store's key order, kept here as a set); otherwise one entry, in the given
\* order, for each given sequence that has an acknowledgement.
packet_acknowledgements(view, channel_end_path, sequences) ==
    LET stored == {k \in DOMAIN view.packet_ack_store :
                     k[1] = channel_end_path[1] /\ k[2] = channel_end_path[2]}
        state(path) == [seq |-> path[3], port_id |-> path[1], chan_id |-> path[2],
                        data |-> get_packet_acknowledgement(view, path).val]
        has_ack(seq) ==
            AckPath(channel_end_path[1], channel_end_path[2], seq)
               \in DOMAIN view.packet_ack_store
        given == SelectSeq(sequences, has_ack)
    IN  IF Len(sequences) = 0
        THEN Ok({state(path) : path \in stored})
        ELSE Ok([i \in 1..Len(given) |->
                    state(AckPath(channel_end_path[1], channel_end_path[2],
                                  given[i]))])

\* Mutant: an empty list of sequences stands for every sequence, as it does in
\* unreceived_acks.
unreceived_packets_empty_means_all(view, channel_end_path, sequences) ==
    LET unreceived(seq) ==
            ReceiptPath(channel_end_path[1], channel_end_path[2], seq)
               \notin view.packet_receipt_store
        given == IF Len(sequences) = 0 THEN [i \in 1..MaxSeq |-> i] ELSE sequences
    IN  Ok(SelectSeq(given, unreceived))

unreceived_packets(view, channel_end_path, sequences) ==
    LET unreceived(seq) ==
            ReceiptPath(channel_end_path[1], channel_end_path[2], seq)
               \notin view.packet_receipt_store
    IN  Ok(SelectSeq(sequences, unreceived))

\* unreceived_acks that walks the commitments of every channel.
unreceived_acks_all_channels(view, channel_end_path, sequences) ==
    LET stored == DOMAIN view.packet_commitment_store
        committed(seq) == \E k \in stored : k[3] = seq
    IN  IF Len(sequences) = 0
        THEN Ok({k[3] : k \in stored})
        ELSE Ok(SelectSeq(sequences, committed))

unreceived_acks(view, channel_end_path, sequences) ==
    LET stored == {k \in DOMAIN view.packet_commitment_store :
                     k[1] = channel_end_path[1] /\ k[2] = channel_end_path[2]}
        committed(seq) ==
            CommitmentPath(channel_end_path[1], channel_end_path[2], seq) \in stored
    IN  IF Len(sequences) = 0
        THEN Ok({k[3] : k \in stored})
        ELSE Ok(SelectSeq(sequences, committed))

\* The answer of the query named op, read from a view.
query(view, op, path, sequences) ==
    CASE op = "client_states" -> client_states(view)
      [] op = "consensus_states" -> consensus_states(view, path[1])
      [] op = "consensus_state_heights" -> consensus_state_heights(view, path[1])
      [] op = "connection_ends" -> connection_ends(view)
      [] op = "channel_ends" -> channel_ends(view)
      [] op = "packet_commitments" -> packet_commitments(view, path)
      [] op = "packet_acknowledgements" -> packet_acknowledgements(view, path, sequences)
      [] op = "unreceived_packets" -> unreceived_packets(view, path, sequences)
      [] op = "unreceived_acks" -> unreceived_acks(view, path, sequences)

\* The queries a client of the query service makes, with their arguments.
QueryArgs ==
    LET all == [i \in 1..MaxSeq |-> i]
        chan == ChannelEndPath("transfer", 0)
    IN  {<<op, <<>>, <<>> >> : op \in {"client_states", "connection_ends", "channel_ends"}}
        \cup {<<op, <<0>>, <<>> >> : op \in {"consensus_states", "consensus_state_heights"}}
        \cup {<<"packet_commitments", chan, <<>> >>}
        \cup {<<op, chan, sequences>> :
                op \in {"packet_acknowledgements", "unreceived_acks"},
                sequences \in {<<>>, all}}
        \cup {<<"unreceived_packets", chan, all>>}

IsQuery(call) == "result" \in DOMAIN call

\* A query runs between the handlers' writes; it reads the pending view.
Query ==
    /\ last.step < MaxOps
    /\ \E args \in QueryArgs :
         last' = [op |-> args[1], path |-> args[2], sequences |-> args[3],
                  step |-> last.step + 1,
                  result |-> query(PendingView(ibc_store), args[1], args[2], args[3])]
    /\ UNCHANGED <<ibc_store, host_height, recv_log, end_log>>

\* The block under construction is committed.
Commit == CtxStep("commit", <<>>, commit(ibc_store))

\* The fixture after its application has sent a packet, committed.
QueryInit ==
    /\ \E ordering \in Orders :
         ibc_store = commit(send_packet(FixtureStore(ordering), "transfer", 0,
                                        PacketData, 3, 2).ctx)
    /\ host_height = 1
    /\ last = [op |-> "none", path |-> <<>>, step |-> 0]
    /\ recv_log = EmptyStore
    /\ end_log = EmptyStore

QueryNext ==
    \/ StorePacketCommitment
    \/ DeletePacketCommitment
    \/ StorePacketReceipt
    \/ StorePacketAcknowledgement
    \/ DeletePacketAcknowledgement
    \/ StoreChannel
    \/ StoreConnection
    \/ Commit
    \/ Query

QuerySpec == QueryInit /\ [][QueryNext]_vars

\* C14 as stated: the result of every query is what the latest committed view
\* holds, so a write that is not committed yet is not visible in it.
C14_QueriesReadCommittedView ==
    IsQuery(last)
      => last.result = query(CommittedView(ibc_store), last.op, last.path, last.sequences)

(***************************************************************************)
(* ChannelCloseConfirm.  msg = [port_id_on_b, chan_id_on_b,                *)
(* proof_chan_end_on_a, proof_height_on_a].  validate reads the context,   *)
(* execute writes it; the dispatcher runs validate and then execute.       *)
(***************************************************************************)
\* The checks of chan_close_confirm_validate, each on what a getter of the
\* context returns.
validate_checks(ctx, msg) ==
    LET chan == channel_end(ctx, ChannelEndPath(msg.port_id_on_b, msg.chan_id_on_b)) IN
    IF ~chan.ok THEN [ok |-> FALSE, err |-> chan.err]
    ELSE IF chan.val.state # "Open" THEN PacketErr("InvalidChannelState")
    ELSE
    LET conn == connection_end(ctx, chan.val.connection_hops[1]) IN
    IF ~conn.ok THEN [ok |-> FALSE, err |-> conn.err]
    ELSE IF conn.val.state # "Open" THEN PacketErr("ConnectionNotOpen")
    ELSE
    LET cons == consensus_state(ctx, conn.val.client_id, msg.proof_height_on_a) IN
    IF ~cons.ok THEN [ok |-> FALSE, err |-> cons.err]
    ELSE IF ~chan.val.counterparty.channel_id.some THEN PacketErr("MissingCounterparty")
    ELSE IF ~verify_membership(
                msg.proof_chan_end_on_a, cons.val.root,
                ChannelEndPath(chan.val.counterparty.port_id,
                               chan.val.counterparty.channel_id.val),
                ChannelEnd("Closed", chan.val.ordering,
                           [port_id |-> msg.port_id_on_b,
                            channel_id |-> Some(msg.chan_id_on_b)],
                           <<conn.val.counterparty.connection_id>>, chan.val.version))
    THEN PacketErr("ChannelVerificationFailed")
    ELSE [ok |-> TRUE]

\* Mutant: the handler logs its success while validating.
chan_close_confirm_validate_logs(ctx, msg) ==
    LET checked == validate_checks(ctx, msg)
    IN  IF ~checked.ok THEN checked
        ELSE PacketOk(log_message(ctx, "success: channel close confirm"))

\* chan_close_confirm_validate: the result of the checks and, when they pass,
\* the context the handler leaves.  The handler calls getters only, so this
\* is the context it was given.
chan_close_confirm_validate(ctx, msg) ==
    LET checked == validate_checks(ctx, msg)
    IN  IF ~checked.ok THEN checked ELSE PacketOk(ctx)

chan_close_confirm_execute(ctx, msg) ==
    LET path == ChannelEndPath(msg.port_id_on_b, msg.chan_id_on_b)
        chan == channel_end(ctx, path)
    IN
    IF ~chan.ok THEN [ok |-> FALSE, err |-> chan.err]
    ELSE
    LET s1 == store_channel(ctx, path, [chan.val EXCEPT !.state = "Closed"])
        s2 == log_message(s1, "success: channel close confirm")
        s3 == emit_ibc_event(s2, [kind |-> "Message", module |-> "channel"])
        s4 == emit_ibc_event(s3, [kind |-> "CloseConfirmChannel",
                                  port_id |-> msg.port_id_on_b,
                                  channel_id |-> msg.chan_id_on_b])
    IN  PacketOk(s4)

\* validate(ctx, router, msg): the result, and the context after the call.
\* A failed call leaves the context it was given; a successful one leaves
\* the context of the handler.
validate(ctx, msg) ==
    LET checked == chan_close_confirm_validate(ctx, msg)
    IN  IF ~checked.ok THEN [ok |-> FALSE, err |-> checked.err, ctx |-> ctx]
        ELSE [ok |-> TRUE, err |-> [kind |-> "none"], ctx |-> checked.ctx]

\* execute(ctx, router, msg): the result, and the context after the call.
\* None of the checks of validate is made.
execute(ctx, msg) ==
    LET done == chan_close_confirm_execute(ctx, msg)
    IN  IF ~done.ok THEN [ok |-> FALSE, err |-> done.err, ctx |-> ctx]
        ELSE [ok |-> TRUE, err |-> [kind |-> "none"], ctx |-> done.ctx]

\* dispatch(ctx, router, msg): validate, then execute.
dispatch(ctx, msg) ==
    LET checked == validate(ctx, msg)
    IN  IF ~checked.ok THEN checked ELSE execute(checked.ctx, msg)

\* The MsgChannelCloseConfirm messages a relayer delivers: the proof shows the
\* counterparty channel end in state Closed, or still Open.
MsgChannelCloseConfirms(ctx) ==
    { [port_id_on_b |-> "transfer", chan_id_on_b |-> channel_id,
       proof_chan_end_on_a |->
          Proof(hg[2], hg[1], ChannelEndPath("transfer", CounterpartyChannelId(channel_id)),
                Some(ChannelEnd(state, ordering,
                                [port_id |-> "transfer", channel_id |-> Some(channel_id)],
                                <<Some(5)>>, "ics20-1"))),
       proof_height_on_a |-> hg[1]] :
        channel_id \in ChannelIds, hg \in ProofHeights,
        state \in {"Closed", "Open"}, ordering \in {OrderingOf(ctx, 0)} }

ChanCall(op, msg, out) ==
    [op |-> op, msg |-> msg, ok |-> out.ok, err |-> out.err]

ChanCloseConfirmValidate ==
    /\ \E msg \in MsgChannelCloseConfirms(ibc_store) :
         LET out == validate(ibc_store, msg) IN
         /\ ibc_store' = out.ctx
         /\ last' = ChanCall("validate", msg, out)
    /\ UNCHANGED <<host_height, recv_log, end_log>>

ChanCloseConfirm ==
    /\ \E msg \in MsgChannelCloseConfirms(ibc_store) :
         LET out == dispatch(ibc_store, msg) IN
         /\ ibc_store' = out.ctx
         /\ last' = ChanCall("chan_close_confirm", msg, out)
    /\ UNCHANGED <<host_height, recv_log, end_log>>

\* execute called on its own, as test_chan_close_confirm_execute calls it.
\* The event buffer is kept within 2 * MaxOps events.
ChanCloseConfirmExecute ==
    /\ Len(ibc_store.events) < 2 * MaxOps
    /\ \E msg \in MsgChannelCloseConfirms(ibc_store) :
         LET out == execute(ibc_store, msg) IN
         /\ ibc_store' = out.ctx
         /\ last' = ChanCall("execute", msg, out)
    /\ UNCHANGED <<host_height, recv_log, end_log>>

\* The connection the channel runs on is taken back to Init or put to Open
\* (contexts the tests build with with_connection).
WithConnection ==
    /\ \E state \in {"Init", "Open"} :
         /\ connection_end(ibc_store, 0).val.state # state
         /\ ibc_store' = store_connection(
                            ibc_store, 0,
                            [connection_end(ibc_store, 0).val EXCEPT !.state = state])
    /\ last' = [op |-> "with_connection"]
    /\ UNCHANGED <<host_height, recv_log, end_log>>

ChanNext ==
    \/ UpdateClient
    \/ WithConnection
    \/ ChanCloseConfirmValidate
    \/ ChanCloseConfirmExecute
    \/ ChanCloseConfirm

ChanSpec == PacketInit /\ [][ChanNext]_vars

(***************************************************************************)
(* Properties of ChannelCloseConfirm.                                      *)
(***************************************************************************)
\* The local channel end named by a message.
LocalChannel(ctx, msg) ==
    channel_end(ctx, ChannelEndPath(msg.port_id_on_b, msg.chan_id_on_b))

\* The proof of a message shows, under the root of the consensus state at the
\* proof height, a counterparty channel end in state Closed.
ProofShowsClosed(ctx, msg) ==
    LET cons == consensus_state(ctx, 0, msg.proof_height_on_a) IN
    /\ cons.ok
    /\ msg.proof_chan_end_on_a.root = cons.val.root
    /\ msg.proof_chan_end_on_a.path
         = ChannelEndPath("transfer", CounterpartyChannelId(msg.chan_id_on_b))
    /\ msg.proof_chan_end_on_a.value.some
    /\ msg.proof_chan_end_on_a.value.val.state = "Closed"

ConnectionIsOpen(ctx) ==
    connection_end(ctx, 0).ok /\ connection_end(ctx, 0).val.state = "Open"

\* The conditions of success the claim names: the local channel end is Open
\* with its counterparty known, the connection is Open and the client has a
\* consensus state at the proof height.
OpenWithConsensusState(ctx, msg) ==
    /\ LocalChannel(ctx, msg).ok
    /\ LocalChannel(ctx, msg).val.state = "Open"
    /\ LocalChannel(ctx, msg).val.counterparty.channel_id.some
    /\ ConnectionIsOpen(ctx)
    /\ consensus_state(ctx, 0, msg.proof_height_on_a).ok

C16_CloseConfirmEmitsTwoEvents ==
    [][ /\ Len(ibc_store'.events) >= Len(ibc_store.events)
        /\ SubSeq(ibc_store'.events, 1, Len(ibc_store.events)) = ibc_store.events
        /\ (last'.op \in {"execute", "chan_close_confirm"} /\ last'.ok)
             => ibc_store'.events
                  = ibc_store.events
                      \o << [kind |-> "Message", module |-> "channel"],
                            [kind |-> "CloseConfirmChannel",
                             port_id |-> last'.msg.port_id_on_b,
                             channel_id |-> last'.msg.chan_id_on_b] >>
      ]_vars

\* execute has succeeded on a context without earlier events: the buffer
\* holds the two events, in order.
C16_Witness ==
    /\ last.op = "execute"
    /\ last.ok
    /\ Len(ibc_store.events) = 2
    /\ ibc_store.events[1] = [kind |-> "Message", module |-> "channel"]
    /\ ibc_store.events[2].kind = "CloseConfirmChannel"

MaxLen == 4

\* The literal 64 passed to validate_prefix_length / validate_identifier_length.
MaxIdLength == 64

Digits == {"0", "1", "2", "3", "4", "5", "6", "7", "8", "9"}

DigitValue ==
    [c \in Digits |->
        CASE c = "0" -> 0 [] c = "1" -> 1 [] c = "2" -> 2 [] c = "3" -> 3
          [] c = "4" -> 4 [] c = "5" -> 5 [] c = "6" -> 6 [] c = "7" -> 7
          [] c = "8" -> 8 [] c = "9" -> 9]

\* u64::MAX = 18446744073709551615
U64MaxDigits ==
    << "1", "8", "4", "4", "6", "7", "4", "4", "0", "7",
       "3", "7", "0", "9", "5", "5", "1", "6", "1", "5" >>

\* ICS-24 special characters; letters and digits are valid as well.
VALID_SPECIAL_CHARS == {".", "_", "+", "-", "#", "[", "]", "<", ">"}

Letters ==
    {"a", "b", "c", "d", "e", "f", "g", "h", "i", "j", "k", "l", "m", "n",
     "o", "p", "q", "r", "s", "t", "u", "v", "w", "x", "y", "z", "A"}

\* Characters the inputs are built from: a letter, the separator, the sign,
\* two digits, and "/" which is outside the ICS-24 charset.
ChainIdChars == {"a", "-", "+", "0", "1", "/"}

Repeat(c, n) == [i \in 1..n |-> c]

\* Inputs at the length limits and at the limit of u64.
LongChainIds ==
    { Repeat("a", MaxIdLength),
      Repeat("a", MaxIdLength + 1),
      Repeat("a", MaxIdLength - 21) \o <<"-", "1">>,
      Repeat("a", MaxIdLength - 20) \o <<"-", "1">>,
      <<"a", "-">> \o U64MaxDigits,
      <<"a", "-">> \o SubSeq(U64MaxDigits, 1, 19) \o <<"6">>,
      <<"a", "-", "0">> \o U64MaxDigits,
      <<"a", "-", "+">> \o Repeat("0", MaxIdLength - 2) \o <<"1">> }

ChainIdStrings ==
    (UNION {[1..n -> ChainIdChars] : n \in 0..MaxLen}) \cup LongChainIds

\* str::rsplit_once('-'): the parts before and after the last '-'.
rsplit_once(s) ==
    IF \E i \in 1..Len(s) : s[i] = "-"
    THEN LET i == CHOOSE k \in 1..Len(s) :
                      s[k] = "-" /\ \A j \in (k + 1)..Len(s) : s[j] # "-"
         IN  Some(<<SubSeq(s, 1, i - 1), SubSeq(s, i + 1, Len(s))>>)
    ELSE None

RECURSIVE StripLeadingZeros(_)
StripLeadingZeros(d) ==
    IF Len(d) > 1 /\ d[1] = "0" THEN StripLeadingZeros(Tail(d)) ELSE d

\* d <= u64::MAX for canonical digits d.
FitsU64(d) ==
    \/ Len(d) < Len(U64MaxDigits)
    \/ /\ Len(d) = Len(U64MaxDigits)
       /\ ~ \E i \in 1..Len(d) :
              /\ \A j \in 1..(i - 1) : d[j] = U64MaxDigits[j]
              /\ DigitValue[d[i]] > DigitValue[U64MaxDigits[i]]

\* str::parse::<u64>(): an optional leading '+', then one or more decimal
\* digits whose value fits in 64 bits.
parse_u64(str) ==
    LET digits == IF Len(str) > 0 /\ str[1] = "+" THEN Tail(str) ELSE str
    IN  IF Len(digits) = 0 \/ \E i \in 1..Len(digits) : digits[i] \notin Digits
        THEN None
        ELSE IF FitsU64(StripLeadingZeros(digits))
             THEN Some(StripLeadingZeros(digits))
             ELSE None

\* u64 Display: the canonical decimal digits.
to_string(rev) == StripLeadingZeros(rev)

\* format!("{chain_name}-{revision_number}")
format_chain_id(chain_name, revision_number) ==
    chain_name \o <<"-">> \o to_string(revision_number)

\* parse_chain_id_string without the leading-zero filter on the suffix.
parse_chain_id_string_no_filter(chain_id_str) ==
    LET parts == rsplit_once(chain_id_str)
        rev   == IF parts.some THEN parse_u64(parts.val[2]) ELSE None
    IN  IF rev.some
        THEN [ok |-> TRUE, val |-> <<parts.val[1], rev.val>>]
        ELSE [ok |-> FALSE, err |-> "UnformattedRevisionNumber"]

parse_chain_id_string(chain_id_str) ==
    LET parts == rsplit_once(chain_id_str)
        keep  == /\ parts.some
                 /\ \/ Len(parts.val[2]) = 0
                    \/ parts.val[2][1] # "0"
                    \/ Len(parts.val[2]) = 1
        rev   == IF keep THEN parse_u64(parts.val[2]) ELSE None
    IN  IF rev.some
        THEN [ok |-> TRUE, val |-> <<parts.val[1], rev.val>>]
        ELSE [ok |-> FALSE, err |-> "UnformattedRevisionNumber"]

validate_identifier_chars(id) ==
    \A i \in 1..Len(id) :
        id[i] \in Letters \cup Digits \cup VALID_SPECIAL_CHARS

validate_identifier_length(id, min, max) ==
    LET lo == IF min > 1 THEN min ELSE 1
    IN  lo <= Len(id) /\ Len(id) <= max

\* The prefix must leave room for '-' and the 20 digits of u64::MAX.
validate_prefix_length(prefix, min_id_length, max_id_length) ==
    validate_identifier_length(
        prefix,
        IF min_id_length > 2 THEN min_id_length - 2 ELSE 0,
        IF max_id_length > 21 THEN max_id_length - 21 ELSE 0)

from_str(id) ==
    IF ~validate_identifier_chars(id)
    THEN [ok |-> FALSE, err |-> "InvalidCharacter"]
    ELSE LET parsed == parse_chain_id_string(id)
         IN  IF parsed.ok
             THEN IF ~validate_prefix_length(parsed.val[1], 1, MaxIdLength)
                  THEN [ok |-> FALSE, err |-> "InvalidLength"]
                  ELSE [ok |-> TRUE,
                        val |-> [id |-> id, revision_number |-> parsed.val[2]]]
             ELSE IF ~validate_identifier_length(id, 1, MaxIdLength)
                  THEN [ok |-> FALSE, err |-> "InvalidLength"]
                  ELSE [ok |-> TRUE,
                        val |-> [id |-> id, revision_number |-> <<"0">>]]

\* ChainId::new(chain_id) is Self::from_str(chain_id).
ChainIdNew ==
    /\ last.op = "input"
    /\ last' = [op |-> "new", chain_id |-> last.chain_id,
                out |-> from_str(last.chain_id)]
    /\ UNCHANGED <<ibc_store, host_height, recv_log, end_log>>

\* ChainId::split_chain_id on an id, through parse_chain_id_string.
ParseChainIdString ==
    /\ last.op = "input"
    /\ last' = [op |-> "parse_chain_id_string", chain_id |-> last.chain_id,
                out |-> parse_chain_id_string(last.chain_id)]
    /\ UNCHANGED <<ibc_store, host_height, recv_log, end_log>>

ChainIdInit ==
    /\ ibc_store = DefaultStore
    /\ host_height = 1
    /\ recv_log = EmptyStore
    /\ end_log = EmptyStore
    /\ \E s \in ChainIdStrings : last = [op |-> "input", chain_id |-> s]

ChainIdNext == ChainIdNew \/ ParseChainIdString

ChainIdSpec == ChainIdInit /\ [][ChainIdNext]_vars

\* The revision suffix of s: what follows its last '-' (empty without a '-').
SuffixOf(s) == IF rsplit_once(s).some THEN rsplit_once(s).val[2] ELSE <<>>

NameOf(s) == IF rsplit_once(s).some THEN rsplit_once(s).val[1] ELSE s

AllDigits(str) == \A i \in 1..Len(str) : str[i] \in Digits

\* A decimal suffix of two or more digits that starts with "0".
LeadingZeroRevision(s) ==
    /\ Len(SuffixOf(s)) > 1
    /\ SuffixOf(s)[1] = "0"
    /\ AllDigits(SuffixOf(s))

\* C18: for every string s over the ICS-24 charset that ChainId parsing
\* splits into (name, rev) at its last '-', formatting "{name}-{rev}" gives
\* back exactly s, ChainId::new(s) is the ChainId with id "{name}-{rev}" and
\* revision_number rev, and the revision part of s has no leading zero
\* unless it is exactly "0".
C18_ParseFormatRoundTrip ==
    LET s      == last.chain_id
        parsed == parse_chain_id_string(s)
    IN  /\ ( /\ last.op = "parse_chain_id_string"
             /\ validate_identifier_chars(s)
             /\ last.out.ok )
           => /\ format_chain_id(last.out.val[1], last.out.val[2]) = s
              /\ SuffixOf(s)[1] = "0" => SuffixOf(s) = <<"0">>
        /\ ( /\ last.op = "new"
             /\ validate_identifier_chars(s)
             /\ parsed.ok
             /\ last.out.ok )
           => last.out.val =
                 [id |-> format_chain_id(parsed.val[1], parsed.val[2]),
                  revision_number |-> parsed.val[2]]

\* C19: constructing a ChainId from a string whose revision suffix has a
\* leading zero is rejected with an error, while a revision of exactly "0"
\* is accepted with revision_number 0.
C19_LeadingZeroRevisionRejected ==
    last.op = "new" =>
       /\ LeadingZeroRevision(last.chain_id) => ~last.out.ok
       /\ ( /\ SuffixOf(last.chain_id) = <<"0">>
            /\ validate_identifier_chars(last.chain_id)
            /\ validate_prefix_length(NameOf(last.chain_id), 1, MaxIdLength) )
          => /\ last.out.ok
             /\ last.out.val.revision_number = <<"0">>

\* C19: a string whose revision suffix has a leading zero is not split into
\* (name, revision): parse_chain_id_string fails with
\* UnformattedRevisionNumber.  ChainId::new does not reject it: for a string
\* of 1 to 64 valid characters it succeeds with the id unchanged and
\* revision_number 0.  A suffix of exactly "0" after a non-empty name of at
\* most 43 characters is parsed as revision 0 and accepted with
\* revision_number 0.
C19_LeadingZeroRevisionIsUnformatted ==
    LET s == last.chain_id
    IN  /\ (last.op = "parse_chain_id_string" /\ LeadingZeroRevision(s))
           => last.out = [ok |-> FALSE, err |-> "UnformattedRevisionNumber"]
        /\ ( /\ last.op = "new"
             /\ LeadingZeroRevision(s)
             /\ validate_identifier_chars(s)
             /\ Len(s) <= MaxIdLength )
           => last.out = [ok |-> TRUE,
                          val |-> [id |-> s, revision_number |-> <<"0">>]]
        /\ ( /\ last.op = "parse_chain_id_string"
             /\ SuffixOf(s) = <<"0">> )
           => last.out = [ok |-> TRUE, val |-> <<NameOf(s), <<"0">> >>]
        /\ ( /\ last.op = "new"
             /\ SuffixOf(s) = <<"0">>
             /\ validate_identifier_chars(s)
             /\ validate_prefix_length(NameOf(s), 1, MaxIdLength) )
           => last.out = [ok |-> TRUE,
                          val |-> [id |-> s, revision_number |-> <<"0">>]]

\* ChainId::new("a-01") has succeeded with revision_number 0.
C19_Witness ==
    /\ last.op = "new"
    /\ last.chain_id = <<"a", "-", "0", "1">>
    /\ last.out.ok
    /\ last.out.val.revision_number = <<"0">>

\* The forms the claim lists as not being {name}-{revision}: no '-', an
\* empty suffix, a suffix with a character that is not a digit, a suffix of
\* several characters starting with "0", or decimal digits beyond u64::MAX.
NotRevisionForm(s) ==
    \/ ~rsplit_once(s).some
    \/ SuffixOf(s) = <<>>
    \/ ~AllDigits(SuffixOf(s))
    \/ Len(SuffixOf(s)) > 1 /\ SuffixOf(s)[1] = "0"
    \/ /\ Len(SuffixOf(s)) > 0
       /\ AllDigits(SuffixOf(s))
       /\ ~FitsU64(StripLeadingZeros(SuffixOf(s)))

\* C20: ChainId::new(s), for a string s of length 1..=64 over the ICS-24
\* charset that is not in {name}-{revision} form, succeeds and yields a
\* ChainId with id equal to s unchanged and revision_number 0.
C20_UnformattedIdKeptWithRevisionZero ==
    ( /\ last.op = "new"
      /\ validate_identifier_chars(last.chain_id)
      /\ Len(last.chain_id) >= 1
      /\ Len(last.chain_id) <= MaxIdLength
      /\ NotRevisionForm(last.chain_id) )
    => last.out = [ok |-> TRUE,
                   val |-> [id |-> last.chain_id,
                            revision_number |-> <<"0">>]]

\* ------------------------------------------------------------------------
\* ChainId values: increment_revision_number and deserialisation.
\* ------------------------------------------------------------------------

\* Most calls of increment_revision_number on one value.
MaxIncs == 2

Front(d) == SubSeq(d, 1, Len(d) - 1)

\* The digit after c, for c below "9".
NextDigit(c) == CHOOSE e \in Digits : DigitValue[e] = DigitValue[c] + 1

RECURSIVE AddOne(_)
AddOne(d) ==
    IF d = <<>> THEN <<"1">>
    ELSE IF d[Len(d)] = "9" THEN AddOne(Front(d)) \o <<"0">>
    ELSE Front(d) \o <<NextDigit(d[Len(d)])>>

\* u64::checked_add(1) that wraps to 0 at u64::MAX instead of failing.
wrapping_add_one(x) == IF x = U64MaxDigits THEN Some(<<"0">>) ELSE Some(AddOne(x))

\* u64::checked_add(1): None on overflow.
checked_add_one(x) == IF x = U64MaxDigits THEN None ELSE Some(AddOne(x))

\* increment_revision_number that changes revision_number but not the id.
increment_revision_number_keeps_id(self) ==
    LET parsed == parse_chain_id_string(self.id)
        inc    == checked_add_one(self.revision_number)
    IN  IF ~parsed.ok THEN [ok |-> FALSE, err |-> parsed.err, self |-> self]
        ELSE IF ~inc.some
             THEN [ok |-> FALSE, err |-> "RevisionNumberOverflow", self |-> self]
             ELSE [ok |-> TRUE,
                   self |-> [id |-> self.id, revision_number |-> inc.val]]

\* increment_revision_number that takes the whole id as the chain name when
\* the id carries no revision number.
increment_revision_number_any_id(self) ==
    LET parsed == parse_chain_id_string(self.id)
        name   == IF parsed.ok THEN parsed.val[1] ELSE self.id
        inc    == checked_add_one(self.revision_number)
    IN  IF ~inc.some
        THEN [ok |-> FALSE, err |-> "RevisionNumberOverflow", self |-> self]
        ELSE [ok |-> TRUE,
              self |-> [id |-> format_chain_id(name, inc.val),
                        revision_number |-> inc.val]]

\* The result carries the value of self after the call.
increment_revision_number(self) ==
    LET parsed == parse_chain_id_string(self.id)
        inc    == checked_add_one(self.revision_number)
    IN  IF ~parsed.ok THEN [ok |-> FALSE, err |-> parsed.err, self |-> self]
        ELSE IF ~inc.some
             THEN [ok |-> FALSE, err |-> "RevisionNumberOverflow", self |-> self]
             ELSE [ok |-> TRUE,
                   self |-> [id |-> format_chain_id(parsed.val[1], inc.val),
                             revision_number |-> inc.val]]

\* Deserialize for ChainId (serde visitor) of an encoded map.  The keys are
\* read as the variants of Field under rename_all = "lowercase": Id is the
\* key "id" and RevisionNumber the key "revisionnumber"; any other key, the
\* "revision_number" that Serialize writes among them, fails the call as an
\* unknown field (the first such key in the map's order is named; `field`
\* holds the keys that can be).  Both fields are required and are stored as
\* read.
deserialize(encoded) ==
    LET unknown == (DOMAIN encoded) \ {"id", "revisionnumber"}
    IN  IF unknown # {}
        THEN [ok |-> FALSE, err |-> "unknown_field", field |-> unknown]
        ELSE IF "id" \notin DOMAIN encoded
        THEN [ok |-> FALSE, err |-> "missing_field id"]
        ELSE IF "revisionnumber" \notin DOMAIN encoded
        THEN [ok |-> FALSE, err |-> "missing_field revision_number"]
        ELSE [ok |-> TRUE,
              val |-> [id |-> encoded.id,
                       revision_number |-> encoded.revisionnumber]]

\* The derived BorshDeserialize of a slice, kept as the sequence of the
\* fields it encodes: id and revision_number are read in the order of the
\* struct and stored as read; a slice that ends early or has bytes left
\* over is rejected.
try_from_slice(slice) ==
    IF Len(slice) < 2 THEN [ok |-> FALSE, err |-> "Unexpected length of input"]
    ELSE IF Len(slice) > 2 THEN [ok |-> FALSE, err |-> "Not all bytes read"]
    ELSE [ok |-> TRUE, val |-> [id |-> slice[1], revision_number |-> slice[2]]]

\* Ids whose revision is about to carry or to overflow.
CarryChainIds ==
    { <<"a", "-", "9">>, <<"a", "-", "9", "9">>, <<"a", "-", "1", "9">>,
      <<"a", "-">> \o SubSeq(U64MaxDigits, 1, 19) \o <<"4">>,
      <<"a", "-", "a", "-", "1">>,
      <<"a", "-", "+">> \o Repeat("0", MaxIdLength - 21) \o U64MaxDigits }

\* Encoded values: an id with a revision_number field, as Serialize writes
\* the map, as a map with the key the visitor reads, and as a Borsh slice
\* (whole, cut short and with bytes left over).
EncodedChainIds ==
    [id : {<<"a", "-", "1">>, <<"a">>, <<"a", "-", "0", "1">>, <<"/">>, <<>>},
     revision_number : {<<"0">>, <<"1">>, <<"6", "9">>, U64MaxDigits}]

RevisionInputs ==
    {[id |-> s] : s \in ChainIdStrings \cup CarryChainIds}
    \cup EncodedChainIds
    \cup {[id |-> e.id, revisionnumber |-> e.revision_number] : e \in EncodedChainIds}
    \cup {[revisionnumber |-> <<"1">>]}
    \cup {[borsh |-> <<e.id, e.revision_number>>] : e \in EncodedChainIds}
    \cup {[borsh |-> <<e.id>>] : e \in EncodedChainIds}
    \cup {[borsh |-> <<<<"a", "-", "1">>, <<"1">>, <<"1">> >>]}

\* ChainId::new on the id string of the input.
RevNew ==
    /\ last.op = "input"
    /\ DOMAIN last.input = {"id"}
    /\ LET out == from_str(last.input.id)
       IN  last' = [op |-> "new", origin |-> "new", input |-> last.input,
                    out |-> out, calls |-> 0, incs |-> 0]
                   @@ (IF out.ok THEN [value |-> out.val, first |-> out.val,
                                       prev |-> out.val]
                       ELSE <<>>)
    /\ UNCHANGED <<ibc_store, host_height, recv_log, end_log>>

\* serde's deserialize on the encoded map of the input.
Deserialize ==
    /\ last.op = "input"
    /\ "borsh" \notin DOMAIN last.input
    /\ LET out == deserialize(last.input)
       IN  last' = [op |-> "deserialize", origin |-> "deserialize",
                    input |-> last.input, out |-> out, calls |-> 0, incs |-> 0]
                   @@ (IF out.ok THEN [value |-> out.val, first |-> out.val,
                                       prev |-> out.val]
                       ELSE <<>>)
    /\ UNCHANGED <<ibc_store, host_height, recv_log, end_log>>

\* ChainId::try_from_slice on the Borsh slice of the input.
BorshDeserialize ==
    /\ last.op = "input"
    /\ "borsh" \in DOMAIN last.input
    /\ LET out == try_from_slice(last.input.borsh)
       IN  last' = [op |-> "try_from_slice", origin |-> "try_from_slice",
                    input |-> last.input, out |-> out, calls |-> 0, incs |-> 0]
                   @@ (IF out.ok THEN [value |-> out.val, first |-> out.val,
                                       prev |-> out.val]
                       ELSE <<>>)
    /\ UNCHANGED <<ibc_store, host_height, recv_log, end_log>>

IncrementRevisionNumber ==
    /\ last.op \in {"new", "deserialize", "try_from_slice", "increment_revision_number"}
    /\ "value" \in DOMAIN last
    /\ last.calls < MaxIncs
    /\ LET out == increment_revision_number(last.value)
       IN  last' = [op |-> "increment_revision_number", origin |-> last.origin,
                    input |-> last.input,
                    out |-> [f \in (DOMAIN out) \ {"self"} |-> out[f]],
                    value |-> out.self, prev |-> last.value,
                    first |-> last.first, calls |-> last.calls + 1,
                    incs |-> IF out.ok THEN last.incs + 1 ELSE last.incs]
    /\ UNCHANGED <<ibc_store, host_height, recv_log, end_log>>

RevisionInit ==
    /\ ibc_store = DefaultStore
    /\ host_height = 1
    /\ recv_log = EmptyStore
    /\ end_log = EmptyStore
    /\ \E e \in RevisionInputs : last = [op |-> "input", input |-> e]

RevisionNext == RevNew \/ Deserialize \/ BorshDeserialize \/ IncrementRevisionNumber

RevisionSpec == RevisionInit /\ [][RevisionNext]_vars

RECURSIVE NatOf(_)
NatOf(d) == IF d = <<>> THEN 0 ELSE NatOf(Front(d)) * 10 + DigitValue[d[Len(d)]]

\* A u64 in base 10^9: <<top, middle, low>>.
Limbs(d) ==
    LET n == Len(d)
    IN  << NatOf(SubSeq(d, 1, n - 18)),
           NatOf(SubSeq(d, IF n > 18 THEN n - 17 ELSE 1, n - 9)),
           NatOf(SubSeq(d, IF n > 9 THEN n - 8 ELSE 1, n)) >>

LimbsPlus(l, k) ==
    LET low == l[3] + k
        mid == l[2] + (low \div 1000000000)
    IN  << l[1] + (mid \div 1000000000), mid % 1000000000, low % 1000000000 >>

\* C21: increment_revision_number on a ChainId in {name}-{rev} form with
\* rev < u64::MAX succeeds, sets revision_number to rev + 1 and the id to
\* "{name}-{rev+1}" with the name part unchanged; n consecutive successful
\* calls raise the revision by exactly n.
C21_IncrementAddsOne ==
    ( /\ last.op = "increment_revision_number"
      /\ last.origin = "new" )
    => /\ ( /\ parse_chain_id_string(last.prev.id).ok
            /\ last.prev.revision_number # U64MaxDigits )
          => last.out.ok
       /\ last.out.ok
          => /\ Limbs(last.value.revision_number)
                   = LimbsPlus(Limbs(last.prev.revision_number), 1)
             /\ last.value.id = NameOf(last.prev.id) \o <<"-">>
                                   \o last.value.revision_number
             /\ NameOf(last.value.id) = NameOf(last.prev.id)
             /\ last.value.revision_number[1] = "0"
                   => last.value.revision_number = <<"0">>
       /\ Limbs(last.value.revision_number)
             = LimbsPlus(Limbs(last.first.revision_number), last.incs)

\* ChainId::new("a-99") has been incremented twice, to "a-101".
C21_Witness ==
    /\ last.op = "increment_revision_number"
    /\ last.first.id = <<"a", "-", "9", "9">>
    /\ last.incs = 2
    /\ last.value = [id |-> <<"a", "-", "1", "0", "1">>,
                     revision_number |-> <<"1", "0", "1">>]

\* C22: increment_revision_number on a ChainId whose revision_number is
\* u64::MAX fails with RevisionNumberOverflow, never wraps to 0, and leaves
\* both id and revision_number unchanged.
C22_OverflowFailsUnchanged ==
    ( /\ last.op = "increment_revision_number"
      /\ last.prev.revision_number = U64MaxDigits
      /\ parse_chain_id_string(last.prev.id).ok )
    => /\ last.out = [ok |-> FALSE, err |-> "RevisionNumberOverflow"]
       /\ last.value = last.prev
       /\ last.value.revision_number # <<"0">>

\* "a-18446744073709551614" was incremented once and the next call failed.
C22_Witness ==
    /\ last.op = "increment_revision_number"
    /\ last.first.id = <<"a", "-">> \o SubSeq(U64MaxDigits, 1, 19) \o <<"4">>
    /\ last.incs = 1
    /\ last.calls = 2
    /\ ~last.out.ok
    /\ last.value.id = <<"a", "-">> \o U64MaxDigits

\* C23: increment_revision_number on a ChainId whose id is not in
\* {chain_name}-{revision_number} format fails and leaves the ChainId
\* unchanged: id is the same string and revision_number is still 0.
C23_UnformattedIdNotIncremented ==
    ( /\ last.op = "increment_revision_number"
      /\ last.origin = "new"
      /\ ~parse_chain_id_string(last.prev.id).ok )
    => /\ last.out = [ok |-> FALSE, err |-> "UnformattedRevisionNumber"]
       /\ last.value = last.prev
       /\ last.value.id = last.input.id
       /\ last.value.revision_number = <<"0">>

\* ChainId::new("a") was given two calls; both failed.
C23_Witness ==
    /\ last.op = "increment_revision_number"
    /\ last.origin = "new"
    /\ last.input.id = <<"a">>
    /\ last.calls = 2
    /\ ~last.out.ok
    /\ last.value = [id |-> <<"a">>, revision_number |-> <<"0">>]

\* C24: ChainId::new accepts every string over the ICS-24 charset whose
\* length is between 1 and 64 inclusive and rejects the empty string, every
\* string of length 65 or more, and every string containing a character
\* outside the charset.
C24_AcceptedIffValidCharsAndLength ==
    last.op = "new" /\ "chain_id" \in DOMAIN last
    => last.out.ok <=> /\ validate_identifier_chars(last.chain_id)
                       /\ Len(last.chain_id) >= 1
                       /\ Len(last.chain_id) <= MaxIdLength

\* C25: every ChainId value obtained by deserialisation equals
\* ChainId::new(id.as_str()): its revision_number agrees with the revision
\* parsed from its id, and an encoded value whose revision_number disagrees
\* with its id is rejected.
C25_DeserialisedEqualsNew ==
    (last.op \in {"deserialize", "try_from_slice"} /\ last.out.ok)
    => from_str(last.out.val.id) = [ok |-> TRUE, val |-> last.out.val]

\* ------------------------------------------------------------------------
\* MsgChannelOpenAck (crates/ibc/src/core/ics04_channel/msgs/chan_open_ack.rs)
\* and MsgChannelCloseInit (ibc-core/ics04-channel/types/src/msgs/
\* chan_close_init.rs): conversion from and to the raw protobuf messages.
\* ------------------------------------------------------------------------

\* PortId::from_str with a lower length limit of 1.
validate_port_identifier_min_one(id) ==
    validate_identifier_chars(id) /\ Len(id) >= 1 /\ Len(id) <= 128

\* PortId::from_str: ICS-24 characters, 2 to 128 of them.
validate_port_identifier(id) ==
    validate_identifier_chars(id) /\ validate_identifier_length(id, 2, 128)

\* ChannelId::from_str: ICS-24 characters, 8 to 64 of them.
validate_channel_identifier(id) ==
    validate_identifier_chars(id) /\ validate_identifier_length(id, 8, 64)

\* Height::try_from(RawHeight) that lets a zero revision_height through.
Height_try_from_any(raw_height) ==
    Some([revision_number |-> raw_height.revision_number,
          revision_height |-> raw_height.revision_height])

\* Height::try_from(RawHeight).ok(): Height::new refuses revision_height 0.
Height_try_from(raw_height) ==
    IF raw_height.revision_height = 0 THEN None
    ELSE Some([revision_number |-> raw_height.revision_number,
               revision_height |-> raw_height.revision_height])

IdentifierErr == [ok |-> FALSE, err |-> "Identifier"]

MsgChannelOpenAck_try_from(raw_msg) ==
    IF ~validate_port_identifier(raw_msg.port_id) THEN IdentifierErr
    ELSE IF ~validate_channel_identifier(raw_msg.channel_id) THEN IdentifierErr
    ELSE IF ~validate_channel_identifier(raw_msg.counterparty_channel_id)
         THEN IdentifierErr
    ELSE IF raw_msg.proof_try = <<>> THEN [ok |-> FALSE, err |-> "InvalidProof"]
    ELSE IF ~raw_msg.proof_height.some
         THEN [ok |-> FALSE, err |-> "MissingHeight"]
    ELSE IF ~Height_try_from(raw_msg.proof_height.val).some
         THEN [ok |-> FALSE, err |-> "MissingHeight"]
    ELSE IF raw_msg.signer = <<>> THEN [ok |-> FALSE, err |-> "Signer"]
    ELSE [ok |-> TRUE,
          val |-> [port_id_on_a        |-> raw_msg.port_id,
                   chan_id_on_a        |-> raw_msg.channel_id,
                   chan_id_on_b        |-> raw_msg.counterparty_channel_id,
                   version_on_b        |-> raw_msg.counterparty_version,
                   proof_chan_end_on_b |-> raw_msg.proof_try,
                   proof_height_on_b   |->
                       Height_try_from(raw_msg.proof_height.val).val,
                   signer              |-> raw_msg.signer]]

\* From<MsgChannelOpenAck> with the two channel ids exchanged.
RawMsgChannelOpenAck_from_swapped(domain_msg) ==
    [port_id                 |-> domain_msg.port_id_on_a,
     channel_id              |-> domain_msg.chan_id_on_b,
     counterparty_channel_id |-> domain_msg.chan_id_on_a,
     counterparty_version    |-> domain_msg.version_on_b,
     proof_try               |-> domain_msg.proof_chan_end_on_b,
     proof_height            |-> Some(domain_msg.proof_height_on_b),
     signer                  |-> domain_msg.signer]

RawMsgChannelOpenAck_from(domain_msg) ==
    [port_id                 |-> domain_msg.port_id_on_a,
     channel_id              |-> domain_msg.chan_id_on_a,
     counterparty_channel_id |-> domain_msg.chan_id_on_b,
     counterparty_version    |-> domain_msg.version_on_b,
     proof_try               |-> domain_msg.proof_chan_end_on_b,
     proof_height            |-> Some(domain_msg.proof_height_on_b),
     signer                  |-> domain_msg.signer]

MsgChannelCloseInit_try_from(raw_msg) ==
    IF ~validate_port_identifier(raw_msg.port_id) THEN IdentifierErr
    ELSE IF ~validate_channel_identifier(raw_msg.channel_id) THEN IdentifierErr
    ELSE [ok |-> TRUE,
          val |-> [port_id_on_a |-> raw_msg.port_id,
                   chan_id_on_a |-> raw_msg.channel_id,
                   signer       |-> raw_msg.signer]]

RawMsgChannelCloseInit_from(domain_msg) ==
    [port_id    |-> domain_msg.port_id_on_a,
     channel_id |-> domain_msg.chan_id_on_a,
     signer     |-> domain_msg.signer]

\* "p", "p34", 128 and 129 letters, one with '/', and the empty string.
RawPortIds ==
    { <<"p">>, <<"p", "3", "4">>, Repeat("a", 128), Repeat("a", 129),
      <<"p", "/", "4">>, <<>> }

\* "channel-0", "channel-34", "chshort", one with '/', and "channel-"
\* followed by 57 digits.
RawChannelIds ==
    { <<"c", "h", "a", "n", "n", "e", "l", "-", "0">>,
      <<"c", "h", "a", "n", "n", "e", "l", "-", "3", "4">>,
      <<"c", "h", "s", "h", "o", "r", "t">>,
      <<"c", "h", "a", "n", "n", "e", "l", "/", "0">>,
      <<"c", "h", "a", "n", "n", "e", "l", "-">> \o Repeat("1", 57) }

RawHeights ==
    {None} \cup {Some([revision_number |-> n, revision_height |-> h]) :
                    n \in {0, 1}, h \in {0, 20}}

RawMsgChannelOpenAcks ==
    [port_id : RawPortIds, channel_id : RawChannelIds,
     counterparty_channel_id : RawChannelIds,
     counterparty_version : {<<>>, <<" ">>, <<"v", "1">>},
     proof_try : {<<>>, <<1>>},
     proof_height : RawHeights,
     signer : {<<>>, <<"c", "o", "s", "m", "o", "s", "1">>}]

RawMsgChannelCloseInits ==
    [port_id : RawPortIds, channel_id : RawChannelIds,
     signer : {<<>>, <<"c", "o", "s", "m", "o", "s", "1">>}]

OpenAckTryFrom ==
    /\ last.op = "input"
    /\ last.kind = "MsgChannelOpenAck"
    /\ last' = [op |-> "try_from", kind |-> last.kind, raw |-> last.raw,
                out |-> MsgChannelOpenAck_try_from(last.raw)]
    /\ UNCHANGED <<ibc_store, host_height, recv_log, end_log>>

\* The test to_and_from: back to raw, and to the domain message again.
OpenAckToAndFrom ==
    /\ last.op = "try_from"
    /\ last.kind = "MsgChannelOpenAck"
    /\ last.out.ok
    /\ last' = [op |-> "to_and_from", kind |-> last.kind, raw |-> last.raw,
                msg |-> last.out.val,
                raw_back |-> RawMsgChannelOpenAck_from(last.out.val),
                msg_back |-> MsgChannelOpenAck_try_from(
                                 RawMsgChannelOpenAck_from(last.out.val))]
    /\ UNCHANGED <<ibc_store, host_height, recv_log, end_log>>

CloseInitTryFrom ==
    /\ last.op = "input"
    /\ last.kind = "MsgChannelCloseInit"
    /\ last' = [op |-> "try_from", kind |-> last.kind, raw |-> last.raw,
                out |-> MsgChannelCloseInit_try_from(last.raw)]
    /\ UNCHANGED <<ibc_store, host_height, recv_log, end_log>>

CloseInitToAndFrom ==
    /\ last.op = "try_from"
    /\ last.kind = "MsgChannelCloseInit"
    /\ last.out.ok
    /\ last' = [op |-> "to_and_from", kind |-> last.kind, raw |-> last.raw,
                msg |-> last.out.val,
                raw_back |-> RawMsgChannelCloseInit_from(last.out.val),
                msg_back |-> MsgChannelCloseInit_try_from(
                                 RawMsgChannelCloseInit_from(last.out.val))]
    /\ UNCHANGED <<ibc_store, host_height, recv_log, end_log>>

MsgInit ==
    /\ ibc_store = DefaultStore
    /\ host_height = 1
    /\ recv_log = EmptyStore
    /\ end_log = EmptyStore
    /\ \/ \E r \in RawMsgChannelOpenAcks :
            last = [op |-> "input", kind |-> "MsgChannelOpenAck", raw |-> r]
       \/ \E r \in RawMsgChannelCloseInits :
            last = [op |-> "input", kind |-> "MsgChannelCloseInit", raw |-> r]

MsgNext ==
    \/ OpenAckTryFrom
    \/ OpenAckToAndFrom
    \/ CloseInitTryFrom
    \/ CloseInitToAndFrom

MsgSpec == MsgInit /\ [][MsgNext]_vars

\* C26: MsgChannelOpenAck and MsgChannelCloseInit round-trip through their
\* raw forms: for every raw message r that try_from accepts, from(try_from(r))
\* equals r, and for the domain message x so obtained try_from(from(x))
\* succeeds and equals x.
C26_RawRoundTrip ==
    last.op = "to_and_from"
    => /\ last.raw_back = last.raw
       /\ last.msg_back = [ok |-> TRUE, val |-> last.msg]

\* An accepted MsgChannelOpenAck with port "p34", two different channel ids
\* and version " " has gone to raw and back.
C26_Witness ==
    /\ last.op = "to_and_from"
    /\ last.kind = "MsgChannelOpenAck"
    /\ last.msg.port_id_on_a = <<"p", "3", "4">>
    /\ last.msg.chan_id_on_a # last.msg.chan_id_on_b
    /\ last.msg.version_on_b = <<" ">>
    /\ last.msg_back.ok

\* C27: MsgChannelOpenAck::try_from rejects a raw message whose proof height
\* is missing or has revision_height 0, with MissingHeight when that is the
\* first field at fault, and one whose proof_try is empty, with InvalidProof
\* when the identifiers before it are valid; no accepted message has a zero
\* proof height or an empty proof.
C27_ZeroHeightAndEmptyProofRejected ==
    (last.op = "try_from" /\ last.kind = "MsgChannelOpenAck")
    => LET r      == last.raw
           ids_ok == /\ validate_port_identifier(r.port_id)
                     /\ validate_channel_identifier(r.channel_id)
                     /\ validate_channel_identifier(r.counterparty_channel_id)
           no_h   == ~r.proof_height.some
                        \/ r.proof_height.val.revision_height = 0
       IN  /\ (no_h \/ r.proof_try = <<>>) => ~last.out.ok
           /\ (ids_ok /\ r.proof_try = <<>>)
              => last.out = [ok |-> FALSE, err |-> "InvalidProof"]
           /\ (ids_ok /\ r.proof_try # <<>> /\ no_h)
              => last.out = [ok |-> FALSE, err |-> "MissingHeight"]
           /\ last.out.ok
              => /\ last.out.val.proof_height_on_b.revision_height > 0
                 /\ last.out.val.proof_chan_end_on_b # <<>>

\* A raw MsgChannelOpenAck with valid identifiers, a proof and height 1-0
\* was rejected with MissingHeight.
C27_Witness ==
    /\ last.op = "try_from"
    /\ last.kind = "MsgChannelOpenAck"
    /\ last.raw.proof_height
          = Some([revision_number |-> 1, revision_height |-> 0])
    /\ last.raw.proof_try # <<>>
    /\ last.out = [ok |-> FALSE, err |-> "MissingHeight"]

\* C28: MsgChannelOpenAck::try_from and MsgChannelCloseInit::try_from
\* succeed only if the port id is a valid identifier of 2 to 128 characters
\* and every channel id field is a valid channel identifier; otherwise the
\* result is an identifier error and no message.
C28_IdentifiersValidated ==
    last.op = "try_from"
    => LET r      == last.raw
           chans  == IF last.kind = "MsgChannelOpenAck"
                     THEN {r.channel_id, r.counterparty_channel_id}
                     ELSE {r.channel_id}
           ids_ok == /\ validate_identifier_chars(r.port_id)
                     /\ Len(r.port_id) >= 2
                     /\ Len(r.port_id) <= 128
                     /\ \A c \in chans : /\ validate_identifier_chars(c)
                                         /\ Len(c) >= 8
                                         /\ Len(c) <= 64
       IN  /\ last.out.ok => ids_ok
           /\ ~ids_ok => last.out = IdentifierErr
           /\ (ids_ok /\ last.kind = "MsgChannelCloseInit") => last.out.ok

\* A raw MsgChannelCloseInit with the one-character port "p" and a valid
\* channel id was rejected with an identifier error.
C28_Witness ==
    /\ last.op = "try_from"
    /\ last.kind = "MsgChannelCloseInit"
    /\ last.raw.port_id = <<"p">>
    /\ validate_channel_identifier(last.raw.channel_id)
    /\ last.out = IdentifierErr

\* ------------------------------------------------------------------------
\* Packet queries over a store that holds packets of two channels.
\* ------------------------------------------------------------------------

\* The fixture after packet 1 was sent on channel 0 and an acknowledgement
\* was written for sequence 1; channel 1 of the same port holds a commitment
\* for sequences 1 and 2 and an acknowledgement for sequence 2.
PacketQueryInit ==
    /\ \E ordering \in Orders :
         LET s0 == send_packet(FixtureStore(ordering), "transfer", 0,
                               PacketData, 3, 2).ctx
             s1 == store_packet_acknowledgement(
                       s0, AckPath("transfer", 0, 1),
                       compute_ack_commitment(<<"ack">>))
             s2 == store_packet_commitment(
                       s1, CommitmentPath("transfer", 1, 1),
                       compute_packet_commitment(PacketData, 3, 2))
             s3 == store_packet_commitment(
                       s2, CommitmentPath("transfer", 1, 2),
                       compute_packet_commitment(PacketData, 3, 2))
             s4 == store_packet_acknowledgement(
                       s3, AckPath("transfer", 1, 2),
                       compute_ack_commitment(<<"ack">>))
         IN  ibc_store = commit(s4)
    /\ host_height = 1
    /\ last = [op |-> "none", path |-> <<>>, step |-> 0]
    /\ recv_log = EmptyStore
    /\ end_log = EmptyStore

PacketQueryNext ==
    \/ StorePacketCommitment
    \/ DeletePacketCommitment
    \/ StorePacketAcknowledgement
    \/ DeletePacketAcknowledgement
    \/ Query

PacketQuerySpec == PacketQueryInit /\ [][PacketQueryNext]_vars

Range(s) == {s[i] : i \in DOMAIN s}

\* C29: unreceived_acks(channel, sequences) returns exactly the sequences,
\* among those given (or among all commitment keys of that channel when the
\* given list is empty), for which a packet commitment is currently stored
\* locally; a sequence whose commitment was deleted, or for which no packet
\* was ever sent, is never returned.
C29_UnreceivedAcksAreStoredCommitments ==
    (IsQuery(last) /\ last.op = "unreceived_acks")
    => LET has(seq) ==
               get_packet_commitment(
                   ibc_store,
                   CommitmentPath(last.path[1], last.path[2], seq)).ok
           answer == IF Len(last.sequences) = 0
                     THEN last.result.val
                     ELSE Range(last.result.val)
           asked  == IF Len(last.sequences) = 0
                     THEN 1..(MaxSeq + 1)
                     ELSE Range(last.sequences)
       IN  /\ last.result.ok
           /\ answer = {seq \in asked : has(seq)}
           /\ Len(last.sequences) > 0
              => \A i, j \in DOMAIN last.result.val :
                    i < j => last.result.val[i] < last.result.val[j]

\* The commitment of packet 1 on channel 0 was deleted and unreceived_acks
\* for sequences 1.. answered with no sequence, while channel 1 still holds
\* its commitments.
C29_Witness ==
    /\ IsQuery(last)
    /\ last.op = "unreceived_acks"
    /\ last.sequences # <<>>
    /\ CommitmentPath("transfer", 0, 1) \notin DOMAIN ibc_store.packet_commitment_store
    /\ CommitmentPath("transfer", 1, 1) \in DOMAIN ibc_store.packet_commitment_store
    /\ last.result = Ok(<<>>)

\* C30: packet_acknowledgements(channel, sequences) returns all
\* acknowledgements stored for that channel when sequences is empty, and
\* otherwise exactly the entries for the given sequences that have a stored
\* acknowledgement; it never returns an acknowledgement that was removed by
\* delete_packet_acknowledgement or one belonging to another channel.
C30_PacketAcknowledgementsAreStoredAcks ==
    (IsQuery(last) /\ last.op = "packet_acknowledgements")
    => LET ack(seq) ==
               get_packet_acknowledgement(
                   ibc_store, AckPath(last.path[1], last.path[2], seq))
           answer == IF Len(last.sequences) = 0
                     THEN last.result.val
                     ELSE Range(last.result.val)
           asked  == IF Len(last.sequences) = 0
                     THEN 1..(MaxSeq + 1)
                     ELSE Range(last.sequences)
       IN  /\ last.result.ok
           /\ answer = {[seq |-> seq, port_id |-> last.path[1],
                         chan_id |-> last.path[2], data |-> ack(seq).val] :
                           seq \in {s \in asked : ack(s).ok}}
           /\ Len(last.sequences) > 0
              => Len(last.result.val) = Cardinality(answer)

\* The acknowledgement of sequence 1 on channel 0 was deleted and
\* packet_acknowledgements with no sequences answered with nothing, while
\* channel 1 still holds an acknowledgement.
C30_Witness ==
    /\ IsQuery(last)
    /\ last.op = "packet_acknowledgements"
    /\ last.sequences = <<>>
    /\ AckPath("transfer", 0, 1) \notin DOMAIN ibc_store.packet_ack_store
    /\ AckPath("transfer", 1, 2) \in DOMAIN ibc_store.packet_ack_store
    /\ last.result = Ok({})

\* ------------------------------------------------------------------------
\* ConnectionOpenConfirm on the contexts of conn_open_confirm_msg_processing:
\* a context with or without a client (with_client) and with or without a
\* connection end in some state (with_connection).
\* ------------------------------------------------------------------------
ConfirmInit ==
    /\ \E with_client \in BOOLEAN, with_connection \in BOOLEAN,
          state \in {"Init", "TryOpen", "Open"},
          cp_conn \in {None, Some(5)}, overflow_checks \in BOOLEAN :
         LET s1 == IF with_client
                   THEN increase_client_counter(
                            store_consensus_state(
                                store_client_state(
                                    DefaultStore, 0,
                                    [latest_height |-> 1, frozen |-> FALSE]),
                                0, 1, ConsensusStateAt(1)),
                            overflow_checks).val
                   ELSE DefaultStore
             s2 == IF with_connection
                   THEN increase_connection_counter(
                            store_connection(
                                s1, 0,
                                ConnectionEnd(state, 0,
                                    Counterparty(7, cp_conn, counterparty_prefix),
                                    get_compatible_versions, 0)),
                            overflow_checks).val
                   ELSE s1
         IN  ibc_store = s2
    /\ host_height = 1
    /\ last = NoCall
    /\ recv_log = EmptyStore
    /\ end_log = EmptyStore

\* The dispatch of one MsgConnectionOpenConfirm, recorded with the message.
ConnOpenConfirmMsg ==
    /\ \E msg \in MsgConnectionOpenConfirms(ibc_store) :
         LET out == process(ibc_store, msg) IN
         /\ ibc_store' = conn_open_confirm_store(ibc_store, msg, out)
         /\ last' = [op |-> "conn_open_confirm",
                     connection_id |-> msg.connection_id,
                     msg |-> msg,
                     pre |-> StoreGet(ibc_store.connection_end_store, msg.connection_id),
                     out |-> out]
    /\ UNCHANGED <<host_height, recv_log, end_log>>

ConfirmNext == UpdateClient \/ ConnOpenConfirmMsg

ConfirmSpec == ConfirmInit /\ [][ConfirmNext]_vars

\* C31: ConnectionOpenConfirm succeeds only if verify_connection_state
\* accepts, at msg.proofs_height and against the root of the stored consensus
\* state at that height, a counterparty connection end equal to: state Open,
\* client id = the local end's counterparty client id, counterparty = (local
\* client id, Some(msg.connection_id), local commitment prefix), versions and
\* delay period of the local end; if verification fails the result is the
\* verify-connection-state error and the connection is not moved to Open.
C31_SuccessOnlyWithVerifiedOpenEnd ==
    (IsConfirm(last) /\ last.pre.some)
    => LET self     == last.pre.val
           msg      == last.msg
           cons     == StoreGet(ibc_store.consensus_state_store,
                                ClientConsensusStatePath(self.client_id,
                                                         msg.proofs_height))
           expected == [state |-> "Open",
                        client_id |-> self.counterparty.client_id,
                        counterparty |->
                            [client_id |-> self.client_id,
                             connection_id |-> Some(msg.connection_id),
                             prefix |-> commitment_prefix],
                        versions |-> self.versions,
                        delay_period |-> self.delay_period]
           verified == /\ cons.some
                       /\ self.counterparty.connection_id.some
                       /\ msg.proof_connection_end.root = cons.val.root
                       /\ msg.proof_connection_end.path =
                             <<self.counterparty.prefix, "connections",
                               self.counterparty.connection_id.val>>
                       /\ msg.proof_connection_end.value = expected
       IN  /\ last.out.ok => verified
           /\ ( /\ self.state = "TryOpen"
                /\ self.client_id \in DOMAIN ibc_store.client_state_store
                /\ cons.some
                /\ self.counterparty.connection_id.some
                /\ ~verified )
              => /\ last.out = HandlerErr(verify_connection_state_error)
                 /\ connection_end(ibc_store, msg.connection_id).val.state
                       = "TryOpen"

\* OpenConfirm on a TryOpen end failed in verification: the proof showed the
\* counterparty end in TryOpen, not Open.
C31_Witness ==
    /\ IsConfirm(last)
    /\ last.pre.some
    /\ last.pre.val.state = "TryOpen"
    /\ last.msg.proof_connection_end.value # None
    /\ last.msg.proof_connection_end.value.state = "TryOpen"
    /\ last.out = HandlerErr(verify_connection_state_error)
    /\ connection_end(ibc_store, last.msg.connection_id).val.state = "TryOpen"

\* C32: ConnectionOpenConfirm fails, without reaching proof verification,
\* when msg.connection_id has no stored connection end, when the connection's
\* client has no client state or no consensus state at msg.proofs_height, or
\* when the local end's counterparty connection id is None.
C32_FailsBeforeVerification ==
    IsConfirm(last)
    => LET msg  == last.msg
           self == last.pre.val
           has_client == self.client_id \in DOMAIN ibc_store.client_state_store
           has_cons   == ClientConsensusStatePath(self.client_id,
                                                  msg.proofs_height)
                            \in DOMAIN ibc_store.consensus_state_store
       IN  /\ ~last.pre.some
              => /\ ~last.out.ok
                 /\ last.out.err.kind = "ConnectionNotFound"
           /\ (last.pre.some /\ self.state = "TryOpen" /\ ~has_client)
              => /\ ~last.out.ok
                 /\ last.out.err.kind = "ClientStateNotFound"
           /\ (last.pre.some /\ self.state = "TryOpen" /\ has_client
                 /\ ~has_cons)
              => /\ ~last.out.ok
                 /\ last.out.err.kind = "ConsensusStateNotFound"
           /\ (last.pre.some /\ self.state = "TryOpen" /\ has_client
                 /\ has_cons /\ ~self.counterparty.connection_id.some)
              => last.out = HandlerErr([kind |-> "InvalidCounterparty"])

\* OpenConfirm on a TryOpen end whose counterparty connection id is None
\* failed with the invalid-counterparty error.
C32_Witness ==
    /\ IsConfirm(last)
    /\ last.pre.some
    /\ last.pre.val.state = "TryOpen"
    /\ ~last.pre.val.counterparty.connection_id.some
    /\ last.out = HandlerErr([kind |-> "InvalidCounterparty"])

(***************************************************************************)
(* Handlers read their own pending writes.                                 *)
(***************************************************************************)
WriteOps ==
    {"store_connection", "store_channel", "store_packet_commitment",
     "store_packet_acknowledgement", "store_next_sequence_send",
     "store_next_sequence_recv", "store_next_sequence_ack"}

\* The ValidationContext getter that matches a store operation, at its path.
GetterOf(op, ctx, path) ==
    CASE op = "store_connection" -> connection_end(ctx, path[1])
      [] op = "store_channel" -> channel_end(ctx, path)
      [] op = "store_packet_commitment" -> get_packet_commitment(ctx, path)
      [] op = "store_packet_acknowledgement" -> get_packet_acknowledgement(ctx, path)
      [] op = "store_next_sequence_send" -> get_next_sequence_send(ctx, path)
      [] op = "store_next_sequence_recv" -> get_next_sequence_recv(ctx, path)
      [] op = "store_next_sequence_ack" -> get_next_sequence_ack(ctx, path)

\* The paths a getter can be asked for: those of the fixture and of the calls.
ReadPaths(op) ==
    CASE op = "store_connection" -> {<<c>> : c \in ConnectionIds}
      [] op = "store_channel" -> {ChannelEndPath("transfer", c) : c \in 0..1}
      [] op \in {"store_packet_commitment", "store_packet_acknowledgement"} ->
             {<<"transfer", c, seq>> : c \in 0..1, seq \in Sequences}
      [] op = "store_next_sequence_send" -> {SeqSendPath("transfer", c) : c \in 0..1}
      [] op = "store_next_sequence_recv" -> {SeqRecvPath("transfer", c) : c \in 0..1}
      [] op = "store_next_sequence_ack" -> {SeqAckPath("transfer", c) : c \in 0..1}

\* C33: after a store operation writes a value at a path, the matching getter
\* for that path returns exactly that value from the pending state, and the
\* getters return what they returned before at every other path.
C33_GettersReadPendingWrites ==
    [][last'.op \in WriteOps =>
         /\ GetterOf(last'.op, ibc_store', last'.path) = Ok(last'.value)
         /\ \A op \in WriteOps : \A path \in ReadPaths(op) :
               (op # last'.op \/ path # last'.path) =>
                   GetterOf(op, ibc_store', path) = GetterOf(op, ibc_store, path)
         /\ ibc_store'.committed = ibc_store.committed]_vars

\* A commitment was written twice at one path, and the getter returns the second
\* value, which is not the one of the packet that was sent.
C33_Witness ==
    /\ last.op = "store_packet_commitment"
    /\ last.step = 2
    /\ last.path = CommitmentPath("transfer", 0, 1)
    /\ last.value = compute_packet_commitment(PacketData, 2, 0)
    /\ get_packet_commitment(ibc_store, last.path) = Ok(last.value)
    /\ ibc_store.committed = <<>>

\* C34: packet_commitments(channel) lists exactly the commitments stored for
\* that port and channel: a sequence is in the result if and only if
\* get_packet_commitment succeeds for it, with the stored commitment as data,
\* and the query does not fail after a commitment was deleted.
C34_PacketCommitmentsAreStoredCommitments ==
    (IsQuery(last) /\ last.op = "packet_commitments")
    => LET got(seq) ==
               get_packet_commitment(
                   ibc_store, CommitmentPath(last.path[1], last.path[2], seq))
       IN  /\ last.result.ok
           /\ last.result.val =
                  {[seq |-> seq, port_id |-> last.path[1], chan_id |-> last.path[2],
                    data |-> got(seq).val] :
                     seq \in {s \in 1..(MaxSeq + 1) : got(s).ok}}

\* The commitment of packet 1 on channel 0 was deleted and packet_commitments
\* answered with no entry, while channel 1 still holds its commitments.
C34_Witness ==
    /\ IsQuery(last)
    /\ last.op = "packet_commitments"
    /\ last.step = 2
    /\ ~get_packet_commitment(ibc_store, CommitmentPath("transfer", 0, 1)).ok
    /\ get_packet_commitment(ibc_store, CommitmentPath("transfer", 1, 1)).ok
    /\ last.result = Ok({})

(***************************************************************************)
(* unreceived_packets between the writes of packet receipts, on a context  *)
(* that holds a receipt for packet 1 of a second channel.                  *)
(***************************************************************************)
SequenceLists ==
    {<<>>, <<1>>, <<2>>, <<1, 2>>, <<2, 1>>, <<2, 2>>, <<MaxSeq + 1, 2, 1>>}

UnreceivedPackets ==
    /\ last.step < MaxOps
    /\ \E channel_id \in 0..1, sequences \in SequenceLists :
         LET path == ChannelEndPath("transfer", channel_id) IN
         last' = [op |-> "unreceived_packets", path |-> path, sequences |-> sequences,
                  step |-> last.step + 1,
                  result |-> unreceived_packets(PendingView(ibc_store), path, sequences)]
    /\ UNCHANGED <<ibc_store, host_height, recv_log, end_log>>

ReceiptInit ==
    /\ \E ordering \in Orders :
         ibc_store = store_packet_receipt(
                         send_packet(FixtureStore(ordering), "transfer", 0,
                                     PacketData, 3, 2).ctx,
                         ReceiptPath("transfer", 1, 1), "Receipt::Ok")
    /\ host_height = 1
    /\ last = [op |-> "none", path |-> <<>>, step |-> 0]
    /\ recv_log = EmptyStore
    /\ end_log = EmptyStore

ReceiptNext == StorePacketReceipt \/ UnreceivedPackets

ReceiptSpec == ReceiptInit /\ [][ReceiptNext]_vars

\* C35: unreceived_packets(channel, sequences) returns exactly the given
\* sequences that have no packet receipt on that channel, in the order given,
\* and an empty list when sequences is empty; a receipt, once stored, stays
\* stored, so its sequence is not returned again.
C35_UnreceivedPacketsAreGivenWithoutReceipt ==
    /\ [](last.op = "unreceived_packets" =>
            LET received(seq) ==
                    get_packet_receipt(
                        ibc_store, ReceiptPath(last.path[1], last.path[2], seq)).ok
                keep == {i \in 1..Len(last.sequences) : ~received(last.sequences[i])}
                out == last.result.val
            IN  /\ last.result.ok
                /\ Len(out) = Cardinality(keep)
                /\ \A n \in 1..Len(out) :
                      \E i \in keep :
                         /\ out[n] = last.sequences[i]
                         /\ Cardinality({k \in keep : k < i}) = n - 1
                /\ last.sequences = <<>> => out = <<>>)
    /\ [][\A path \in ibc_store.packet_receipt_store :
             get_packet_receipt(ibc_store', path).ok]_vars

\* A receipt was stored for packet 2 of channel 0, and unreceived_packets for
\* the sequences 3, 2, 1 of that channel answered 3, 1.
C35_Witness ==
    /\ last.op = "unreceived_packets"
    /\ last.step = 2
    /\ last.path = ChannelEndPath("transfer", 0)
    /\ last.sequences = <<MaxSeq + 1, 2, 1>>
    /\ get_packet_receipt(ibc_store, ReceiptPath("transfer", 0, 2)).ok
    /\ last.result = Ok(<<MaxSeq + 1, 1>>)

(***************************************************************************)
(* The host chain of MockGenericContext: `history` holds its blocks, oldest*)
(* first, with consecutive heights of one revision; a block is its height  *)
(* and its timestamp.  A call that unwinds is recorded as Panic.           *)
(***************************************************************************)
\* The timestamps a block of a height can carry.
BlockTimestamps(height) == {10 * height, 10 * height + 5}

\* blocks_since(a, b): the number of blocks from b up to a, if b is not above a.
blocks_since(a, b) == IF a >= b THEN Some(a - b) ELSE None

\* AnyHostBlock::into_header().into_consensus_state()
into_consensus_state(block) == [height |-> block.height, timestamp |-> block.timestamp]

history_host_height(history) == Ok(history[Len(history)].height)

host_consensus_state(history, height) ==
    LET height_delta == blocks_since(history_host_height(history).val, height)
    IN  IF ~height_delta.some
        THEN Panic("no error")
        ELSE IF 1 + height_delta.val > Len(history)
             THEN Err([kind |-> "MissingLocalConsensusState", height |-> height])
             ELSE Ok(into_consensus_state(history[Len(history) - height_delta.val]))

history_host_timestamp(history) ==
    LET host_cons_state ==
            host_consensus_state(history, history_host_height(history).val)
    IN  IF host_cons_state.ok THEN Ok(host_cons_state.val.timestamp) ELSE host_cons_state

\* The histories in use: blocks of consecutive heights down from the latest.
Histories ==
    UNION {UNION {{[i \in 1..n |-> [height |-> latest - n + i, timestamp |-> ts[i]]] :
                     ts \in {t \in [1..n -> 10..(10 * latest + 5)] :
                                \A i \in 1..n : t[i] \in BlockTimestamps(latest - n + i)}} :
                  n \in 1..latest} :
           latest \in 1..(MaxHeight + 1)}

HostCall(op, height, out) ==
    [op |-> op, history |-> last.history, height |-> height, out |-> out,
     step |-> last.step + 1]

HostConsensusState ==
    /\ last.step < MaxOps
    /\ \E height \in 1..(MaxHeight + 2) :
         last' = HostCall("host_consensus_state", height,
                          host_consensus_state(last.history, height))
    /\ UNCHANGED <<ibc_store, host_height, recv_log, end_log>>

HostTimestamp ==
    /\ last.step < MaxOps
    /\ last' = HostCall("host_timestamp", history_host_height(last.history).val,
                        history_host_timestamp(last.history))
    /\ UNCHANGED <<ibc_store, host_height, recv_log, end_log>>

HostInit ==
    /\ ibc_store = DefaultStore
    /\ \E history \in Histories :
         /\ last = [op |-> "none", history |-> history, step |-> 0]
         /\ host_height = history_host_height(history).val
    /\ recv_log = EmptyStore
    /\ end_log = EmptyStore

HostNext == HostConsensusState \/ HostTimestamp

HostSpec == HostInit /\ [][HostNext]_vars

BlockAt(history, height) == {i \in 1..Len(history) : history[i].height = height}

\* C36: host_consensus_state(h) returns the consensus state of the block of
\* the history whose height is h, and the MissingLocalConsensusState error,
\* neither a panic nor another block's state, for every height without a block
\* in the history; host_timestamp is the timestamp of the last block.
C36_HostConsensusStateOrMissing ==
    /\ last.op = "host_consensus_state" =>
          IF BlockAt(last.history, last.height) # {}
          THEN \E i \in BlockAt(last.history, last.height) :
                  last.out = Ok(into_consensus_state(last.history[i]))
          ELSE last.out = Err([kind |-> "MissingLocalConsensusState",
                               height |-> last.height])
    /\ last.op = "host_timestamp" =>
          last.out = Ok(last.history[Len(last.history)].timestamp)

(***************************************************************************)
(* The client getters between the writes of client and consensus states.   *)
(***************************************************************************)
ClientStates == {[latest_height |-> h, frozen |-> FALSE] : h \in Heights}
ConsensusStates == {ConsensusStateAt(h) : h \in Heights}

StoreClientState ==
    \E client_id \in ClientIds, cs \in ClientStates :
        CtxWrite("store_client_state", <<client_id>>, cs,
                 store_client_state(ibc_store, client_id, cs))

StoreConsensusState ==
    \E client_id \in ClientIds, height \in 0..MaxHeight, cons \in ConsensusStates :
        CtxWrite("store_consensus_state", ClientConsensusStatePath(client_id, height),
                 cons, store_consensus_state(ibc_store, client_id, height, cons))

ClientState ==
    /\ last.step < MaxOps
    /\ \E client_id \in ClientIds :
         last' = [op |-> "client_state", path |-> <<client_id>>,
                  out |-> client_state(ibc_store, client_id), step |-> last.step + 1]
    /\ UNCHANGED <<ibc_store, host_height, recv_log, end_log>>

ConsensusState ==
    /\ last.step < MaxOps
    /\ \E client_id \in ClientIds, height \in 0..MaxHeight :
         last' = [op |-> "consensus_state",
                  path |-> ClientConsensusStatePath(client_id, height),
                  out |-> consensus_state(ibc_store, client_id, height),
                  step |-> last.step + 1]
    /\ UNCHANGED <<ibc_store, host_height, recv_log, end_log>>

ClientInit ==
    /\ ibc_store \in {DefaultStore,
                       store_consensus_state(
                           store_client_state(DefaultStore, 0,
                                              [latest_height |-> 1, frozen |-> FALSE]),
                           0, 1, ConsensusStateAt(1))}
    /\ host_height = 1
    /\ last = [op |-> "none", path |-> <<>>, step |-> 0]
    /\ recv_log = EmptyStore
    /\ end_log = EmptyStore

ClientNext == StoreClientState \/ StoreConsensusState \/ ClientState \/ ConsensusState

ClientSpec == ClientInit /\ [][ClientNext]_vars

\* C37: client_state fails with ClientStateNotFound when no client state is
\* stored for the id; consensus_state fails with InvalidHeight when the height
\* of the path is 0 and with ConsensusStateNotFound, carrying the client id
\* and the height, when no consensus state is stored at the path; a store at
\* a path replaces the state stored there, so that a client has one consensus
\* state per height.
C37_ClientGettersFailWhenNothingStored ==
    /\ [](/\ last.op = "client_state" =>
              IF last.path[1] \in DOMAIN ibc_store.client_state_store
              THEN last.out = Ok(ibc_store.client_state_store[last.path[1]])
              ELSE last.out = Err([kind |-> "ClientStateNotFound",
                                   client_id |-> last.path[1]])
          /\ last.op = "consensus_state" =>
              IF last.path[2] = 0
              THEN last.out = Err([kind |-> "InvalidHeight"])
              ELSE IF last.path \in DOMAIN ibc_store.consensus_state_store
                   THEN last.out = Ok(ibc_store.consensus_state_store[last.path])
                   ELSE last.out = Err([kind |-> "ConsensusStateNotFound",
                                        client_id |-> last.path[1],
                                        height |-> last.path[2]]))
    /\ [][last'.op = "store_consensus_state" =>
            /\ StoreGet(ibc_store'.consensus_state_store, last'.path) = Some(last'.value)
            /\ consensus_states(ibc_store', last'.path[1]).ok =>
                  {p \in consensus_states(ibc_store', last'.path[1]).val :
                     p[1] = last'.path[2]} = {<<last'.path[2], last'.value>>}
            /\ last'.path[2] # 0 =>
                  consensus_state(ibc_store', last'.path[1], last'.path[2])
                      = Ok(last'.value)]_vars

\* A consensus state was stored for client 0 at height 0, and consensus_state
\* for that path failed with InvalidHeight.
C37_Witness ==
    /\ last.op = "consensus_state"
    /\ last.path = ClientConsensusStatePath(0, 0)
    /\ last.path \in DOMAIN ibc_store.consensus_state_store
    /\ last.out = Err([kind |-> "InvalidHeight"])

\* C38: a ChainId built by ChainId::new is, after any sequence of
\* increment_revision_number calls, still a valid chain id consistent with its
\* fields: ChainId::new of its id succeeds and equals the value, its id is at
\* most 64 characters long, and the revision parsed from a revision-formatted
\* id equals its revision_number.
C38_ValidAfterIncrements ==
    (last.op # "input" /\ last.origin = "new" /\ "value" \in DOMAIN last)
    => /\ from_str(last.value.id) = Ok(last.value)
       /\ Len(last.value.id) <= MaxIdLength
       /\ parse_chain_id_string(last.value.id).ok =>
             parse_chain_id_string(last.value.id).val[2] = last.value.revision_number

(***************************************************************************)
(* The connections of a client: the writes of a connection handler and the *)
(* client_connection_ends query, on the fixture, whose client 0 has        *)
(* connection 0.                                                           *)
(***************************************************************************)
ClientConnectionEnds ==
    /\ last.step < MaxOps
    /\ \E client_id \in ClientIds :
         last' = [op |-> "client_connection_ends", path |-> <<client_id>>,
                  step |-> last.step + 1,
                  result |-> client_connection_ends(PendingView(ibc_store), client_id)]
    /\ UNCHANGED <<ibc_store, host_height, recv_log, end_log>>

ClientConnNext ==
    \/ StoreConnection
    \/ StoreConnectionToClient
    \/ IncreaseConnectionCounter
    \/ ClientConnectionEnds

ClientConnSpec == CtxInit /\ [][ClientConnNext]_vars

\* C39: store_connection_to_client(client, conn_id) appends conn_id to the
\* connection ids of that client and leaves those of every other client
\* unchanged; client_connection_ends(client) returns the ids in the order
\* they were stored, and an empty list for a client without connections.
C39_ConnectionIdsAppendedInOrder ==
    /\ [](last.op = "client_connection_ends" =>
            last.result =
                Ok(IF last.path[1] \in DOMAIN ibc_store.connection_ids_store
                   THEN ibc_store.connection_ids_store[last.path[1]]
                   ELSE <<>>))
    /\ [][last'.op = "store_connection_to_client" =>
            \A client_id \in ClientIds :
               LET before == client_connection_ends(ibc_store, client_id).val
                   after  == client_connection_ends(ibc_store', client_id).val
               IN  IF client_id = last'.path[1]
                   THEN /\ Len(after) = Len(before) + 1
                        /\ after[Len(after)] = last'.value
                        /\ \A i \in 1..Len(before) : after[i] = before[i]
                   ELSE after = before]_vars

\* Connection 1 was stored for client 0 after connection 0, and
\* client_connection_ends answered 0, 1 for it.
C39_Witness ==
    /\ last.op = "client_connection_ends"
    /\ last.step = 2
    /\ last.path = <<0>>
    /\ last.result = Ok(<<0, 1>>)
====
